---- MODULE Spec2Model ----
(***************************************************************************)
(* CloudClip background service worker (src/src/background/background.js,  *)
(* first variant, lines 1-796) together with the sync module it imports    *)
(* (src/src/lib/device.js lines 220-690) and the session helpers           *)
(* (src/src/lib/supabase-client.js).                                       *)
(*                                                                         *)
(* Every async function is a process.  One action is "the awaited call     *)
(* resolves, and the continuation runs up to the next await": the awaited  *)
(* call reads or writes the shared state in that step, the code after it   *)
(* runs in the same step, and the process then waits at the next await.    *)
(* Awaits of getDeviceId/getDeviceName/getAutoCaptureSetting inside the    *)
(* login and upload flows touch no state another handler writes; they are  *)
(* folded into the neighbouring step where the comments say so.            *)
(***************************************************************************)
EXTENDS Integers, Sequences, FiniteSets, TLC

\* ------------------------------------------------------------------ bounds
MaxInitRuns == 2      \* initialize() bodies started in one process life
MaxSessions == 1      \* sign-ins the identity provider performs
MaxIds      == 2      \* ids in use when a new capture or foreign upload is still admitted
MaxFaults   == 1      \* remote-store writes the environment lets fail
MAX_ITEMS   == 3      \* CONFIG.SYNC.MAX_ITEMS (50 in config.js), shrunk
FETCH_LIMIT == MAX_ITEMS  \* CONFIG.SYNC.FETCH_LIMIT (50 in config.js)
MaxMergeLen    == 2   \* longest server listing and longest cache handed to a merge
MaxMergeRounds == 2   \* merges a caller makes in a row with one server listing
MaxSeconds     == 1   \* besides the moments a timer is due, the clock is looked at every
                      \* second up to this one
RATE_LIMIT_MAX_REQUESTS == 2  \* CONFIG.SYNC.RATE_LIMIT_MAX_REQUESTS (30 in config.js), shrunk

\* ------------------------------------------------------- program constants
RETRY_ATTEMPTS          == 3
RATE_LIMIT_WINDOW_MS    == 60000
RETRY_BASE_DELAY_MS     == 1000
COPY_DEBOUNCE_MS == 500
DEBOUNCE_MS             == 1000
UPLOAD_HASH_TTL         == 5000

\* -------------------------------------------------------------- contents
\* A clipboard text is a sequence of span codes: 1 and 2 are plain words,
\* SsnSpan is a span the SSN pattern matches, RedactedSpan is the
\* replacement '[REDACTED]'.
SsnSpan      == 9
RedactedSpan == 0
BlankSpan    == 3
\* spans the credit-card pattern (a number the Luhn check accepts), the
\* first and the last of the password patterns match
CcSpan       == 16
PwdSpan      == 8
TokenSpan    == 5
Contents     == { <<1>>, <<SsnSpan>> }
\* what an UPLOAD_ITEM message may carry: also '' and a text of white space only
MessageContents == Contents \cup { <<>>, <<BlankSpan>> }
LocalDevice  == "local"
OtherDevice  == "other"
NoHash       == -1

\* hash = ((hash << 5) - hash) + char; hash = hash & hash  (redaction.js 171-172):
\* 31 * hash + char wrapped to a signed 32-bit integer, computed on 16-bit halves.
HashStep(hash, char) ==
    LET lo == 31 * (hash % 65536) + char
        hi == (31 * ((hash \div 65536) % 65536) + (lo \div 65536)) % 65536
    IN  IF hi >= 32768 THEN (hi - 65536) * 65536 + (lo % 65536)
        ELSE hi * 65536 + (lo % 65536)

RECURSIVE HashFold(_, _, _)
HashFold(content, i, hash) ==
    IF i > Len(content) THEN hash
    ELSE HashFold(content, i + 1, HashStep(hash, content[i]))

\* hashContent: the base-36 rendering of |hash| is injective, so the model
\* keeps the number itself; '' (empty content) is NoHash - never compared.
hashContent(content) ==
    IF content = <<>> THEN NoHash
    ELSE LET h == HashFold(content, 1, 0) IN IF h < 0 THEN 0 - h ELSE h

\* redactSensitiveData at span level: every span a pattern matches is
\* replaced by the replacement, everything else is kept.
\* !content || content.trim().length === 0  (device.js 261)
IsBlank(content) == \A i \in 1..Len(content) : content[i] = BlankSpan

Hashes == {hashContent(c) : c \in Contents}

\* the `error` of the results uploadClipboardItem returns (device.js 262, 270,
\* 275, 311, 338, 370); NoError stands for { success: true } or for no result yet
ErrEmpty  == "Empty content"
ErrLoop   == "Duplicate content (upload loop prevention)"
ErrRate   == "Rate limit exceeded"
ErrNoAuth == "Not authenticated"
ErrDup    == "Duplicate content"
ErrInsert == "err.message"
NoError   == ""

redactSensitiveData(content) ==
    [i \in 1..Len(content) |-> IF content[i] = SsnSpan THEN RedactedSpan ELSE content[i]]

\* ------------------------------------------------------------- variables
VARIABLES
    \* background.js module state
    initPromise,     \* "null" | "pending" | "fulfilled" | "rejected": the memoized promise
    initRun,         \* which initialize() body the memoized promise belongs to (0: none)
    initPc,          \* where the running initialize() body waits
    bgSub,           \* background.js realtimeSubscription (0 = null, else channel id)
    \* sync module state (device.js 231-245)
    syncSub,         \* sync realtimeSubscription (0 = null, else channel id)
    debounceTimers,  \* live debounce timers: [hash, content, due]
    recentlyUploaded,\* content hashes in the loop-prevention guard
    rateLimitState,  \* [requestCount, windowStart]
    guardTimers,     \* live timeouts that will delete a hash from recentlyUploaded: [hash, due]
    \* collaborators
    session,         \* "none" | "user": what getSession() returns
    epoch,           \* number of the current (or last) session
    authListeners,   \* callbacks registered with onAuthStateChange
    initialSessionDue, \* INITIAL_SESSION event not yet delivered to the listener
    channels,        \* push channels that are subscribed
    chanSeq,         \* channels created so far
    remote,          \* rows of clipboard_items
    nextId,          \* ids handed out so far
    now,             \* clock
    faults,          \* remote failures injected so far
    \* chrome.storage.local
    cache,           \* CACHED_ITEMS
    onboardingSet,   \* ONBOARDING_COMPLETE has a value
    autoCapture,     \* AUTO_CAPTURE !== false
    \* handler processes
    pc, loc,
    \* history (not program state)
    initRuns,        \* initialize() bodies started
    initFailed,      \* initialize() bodies that threw
    initSteps,       \* how often each init step ran
    handles,         \* per trigger source: the run whose promise it was last handed
    effects,         \* login-setup effects issued by login handlers in this epoch
    accepted,        \* captures the capture handler stored as pending: [hash, why]
    staleApplied,    \* a result was applied for a session that had ended
    logoutSnap,      \* what the last SIGNED_OUT handler found before cleaning up
    \* callers of the sync module's functions taken on their own
    mg,              \* a caller of mergeWithLocalCache: its argument and what it got back
    rw,              \* a caller of retryWithBackoff: the loop position and what was observed
    rl,              \* a caller of checkRateLimit / incrementRateLimit: what it observed
    \* the redaction module taken on its own
    rx,              \* the patterns' lastIndex, and a caller's last call and its result
    \* the content script of one page
    cs,              \* its state, the page's clock and the messages it has sent
    \* the UPLOAD_ITEM message handler seen from outside
    call,            \* the last uploadClipboardItem call of the handler: [content, outcome]
    reply,           \* the last result performUpload returned to the handler: [content, error, log]
    db,              \* per content hash: is a burst of debounced calls open, and its last call
    reached          \* uploads of the handler that have reached the remote store

bgVars    == <<initPromise, initRun, initPc, bgSub>>
syncVars  == <<syncSub, debounceTimers, recentlyUploaded, guardTimers, rateLimitState>>
envVars   == <<session, epoch, authListeners, initialSessionDue, channels, chanSeq,
               remote, nextId, now, faults>>
storeVars == <<cache, onboardingSet, autoCapture>>
procVars  == <<pc, loc>>
histVars  == <<initRuns, initFailed, initSteps, handles, effects, accepted,
               staleApplied, logoutSnap>>
fnVars    == <<mg, rw, rl, rx, cs>>
obsVars   == <<call, reply, db, reached>>
vars      == <<bgVars, syncVars, envVars, storeVars, procVars, histVars, fnVars, obsVars>>

initVars  == <<initPromise, initRun, initPc, initRuns, initFailed, handles>>

\* ------------------------------------------------------------- processes
LoginProcs == {"loginInit", "loginAuth"}   \* handleUserLogin from init / from an auth event
FlushProcs == LoginProcs \cup {"wake"}     \* callers of processPendingUploads
Procs      == FlushProcs \cup {"capture", "manual", "push", "query"}
Triggers   == {"boot", "lifecycle", "message"}
InitStepNames == {"defaults", "listener", "session"}
EffectNames   == {"upsert", "subscribe", "fetch", "flush"}

NoItem == [id |-> 0, content |-> <<>>, hash |-> NoHash, dev |-> "", ts |-> 0,
           pending |-> FALSE, deleted |-> FALSE]
Idle   == [content |-> <<>>, ts |-> 0, queue |-> <<>>, item |-> NoItem,
           cached |-> <<>>, epoch |-> 0, try |-> 0, snap |-> {}, end |-> "",
           log |-> <<>>]

Booted == handles["boot"] # 0
Free(p) == pc[p] \in {"idle", "done"}

\* no call of the functions taken on their own is under way
MgIdle == [pc |-> "idle", server |-> <<>>, reads |-> <<>>, out |-> <<>>, prev |-> <<>>]
RwIdle == [pc |-> "idle", i |-> 0, calls |-> 0, waits |-> <<>>, thrown |-> <<>>,
           since |-> 0, due |-> 0, result |-> <<>>]
RlIdle == [pc |-> "idle", start |-> 0, records |-> 0, last |-> FALSE]

\* the redaction module is loaded: every pattern's lastIndex is 0, no call yet
FreshIndex == [p \in {"ssn", "credit_card", "password", "token"} |-> 0]
RxIdle == [pc |-> "idle", arg |-> <<>>, redacted |-> <<>>, types |-> <<>>,
           lastIndex |-> FreshIndex]

\* the content script has been injected and has enabled itself; nothing
\* copied yet (content.js 23-26, 31-44).  Date.now() of a page is far from 0.
CsIdle == [captureEnabled |-> TRUE, lastCopiedContent |-> <<>>, lastCopyTime |-> 0,
           clock |-> COPY_DEBOUNCE_MS, copies |-> 0,
           event |-> [content |-> <<>>, at |-> 0], sent |-> <<>>]

\* nothing has been seen of the UPLOAD_ITEM handler yet
NoCall  == [content |-> <<>>, outcome |-> "none"]
NoReply == [content |-> <<>>, error |-> "none", log |-> <<>>]
NoBurst == [open |-> FALSE, last |-> 0]

\* the worker's own state when its module has been loaded
InitProgram ==
    /\ initPromise = "null" /\ initRun = 0 /\ initPc = "idle" /\ bgSub = 0
    /\ syncSub = 0 /\ debounceTimers = {} /\ recentlyUploaded = {} /\ guardTimers = {}
    /\ rateLimitState = [requestCount |-> 0, windowStart |-> 0]
    /\ session \in {"none", "user"}
    /\ epoch = IF session = "user" THEN 1 ELSE 0
    /\ authListeners = 0 /\ initialSessionDue = FALSE
    /\ channels = {} /\ chanSeq = 0
    /\ remote = {} /\ nextId = 0 /\ now = 0 /\ faults = 0
    /\ cache = <<>> /\ onboardingSet \in BOOLEAN /\ autoCapture = TRUE
    /\ pc = [p \in Procs |-> "idle"] /\ loc = [p \in Procs |-> Idle]
    /\ initRuns = 0 /\ initFailed = 0
    /\ initSteps = [s \in InitStepNames |-> 0]
    /\ handles = [t \in Triggers |-> 0]
    /\ effects = [e \in EffectNames |-> 0]
    /\ accepted = {} /\ staleApplied = FALSE
    /\ logoutSnap = [seen |-> FALSE, hadSub |-> FALSE, hadTimers |-> FALSE]

Init ==
    /\ InitProgram
    /\ mg = MgIdle /\ rw = RwIdle /\ rl = RlIdle /\ rx = RxIdle /\ cs = CsIdle
    /\ call = NoCall /\ reply = NoReply /\ db = [h \in Hashes |-> NoBurst] /\ reached = 0

\* ===================================================== Lifecycle Supervisor
\* handleUserLogin up to its first await (background.js 154-169): the
\* subscription guard is evaluated synchronously with the call.
handleUserLogin(p, ep) ==
    IF bgSub # 0
    THEN /\ pc' = [pc EXCEPT ![p] = "done"]
         /\ loc' = [loc EXCEPT ![p] = [Idle EXCEPT !.end = "skipped", !.epoch = ep]]
    ELSE /\ pc' = [pc EXCEPT ![p] = "upsert"]
         /\ loc' = [loc EXCEPT ![p] = [Idle EXCEPT !.epoch = ep, !.snap = accepted]]

\* A variant whose guard is a flag set only when initialization has finished
\* (the superseded variant at background.js 815-823).
initializeFlagGuard(src) ==
    IF initPromise = "fulfilled"
    THEN /\ handles' = [handles EXCEPT ![src] = initRun]
         /\ UNCHANGED <<initPromise, initRun, initPc, initRuns, initFailed, initSteps>>
    ELSE /\ initRuns < MaxInitRuns
         /\ initRuns' = initRuns + 1
         /\ initRun' = initRuns + 1
         /\ handles' = [handles EXCEPT ![src] = initRuns + 1]
         /\ initSteps' = [initSteps EXCEPT !["defaults"] = @ + 1]
         /\ initPromise' = "pending" /\ initPc' = "get"
         /\ UNCHANGED initFailed

\* initialize() up to its first await (background.js 30-45, 98-107).  The
\* async body runs synchronously until `await chrome.storage.local.get`; if
\* that call throws synchronously the catch block sets initPromise = null
\* BEFORE the enclosing assignment `initPromise = (async () => ...)()`
\* stores the already-rejected promise.
initialize(src) ==
    IF initPromise # "null"
    THEN /\ handles' = [handles EXCEPT ![src] = initRun]
         /\ UNCHANGED <<initPromise, initRun, initPc, initRuns, initFailed, initSteps>>
    ELSE /\ initRuns < MaxInitRuns
         /\ initRuns' = initRuns + 1
         /\ initRun' = initRuns + 1
         /\ handles' = [handles EXCEPT ![src] = initRuns + 1]
         /\ initSteps' = [initSteps EXCEPT !["defaults"] = @ + 1]
         /\ \E thrown \in BOOLEAN :
              IF thrown
              THEN /\ initPromise' = "rejected" /\ initPc' = "idle"
                   /\ initFailed' = initFailed + 1
              ELSE /\ initPromise' = "pending" /\ initPc' = "get"
                   /\ UNCHANGED initFailed

\* Top-level boot (background.js 791-796): runs once, when the module loads.
Boot ==
    /\ ~Booted
    /\ initialize("boot")
    /\ UNCHANGED <<bgSub, syncVars, envVars, storeVars, fnVars, procVars,
                   effects, accepted, staleApplied, logoutSnap, obsVars>>

\* onInstalled / onStartup (background.js 617-657).
Lifecycle ==
    /\ Booted
    /\ \E install \in BOOLEAN :
         onboardingSet' = (IF install THEN TRUE ELSE onboardingSet)
    /\ initialize("lifecycle")
    /\ UNCHANGED <<bgSub, syncVars, envVars, cache, autoCapture, fnVars, procVars,
                   effects, accepted, staleApplied, logoutSnap, obsVars>>

\* catch block of initialize() reached after an await (background.js 98-104):
\* the memoized promise is this body's promise, and it is cleared.
InitFail ==
    /\ initPromise' = "null" /\ initRun' = 0 /\ initPc' = "idle"
    /\ initFailed' = initFailed + 1

\* A variant that issues getSession() before the listener is registered.
InitRegisterAfterSession ==
    /\ initSteps' = [initSteps EXCEPT !["session"] = @ + 1]
    /\ initPc' = "session"
    /\ UNCHANGED <<initPromise, initRun, initFailed, authListeners, initialSessionDue>>

\* background.js 50-59 and 74: register the auth listener, then issue getSession().
InitRegister ==
    /\ authListeners' = authListeners + 1
    /\ initialSessionDue' = TRUE
    /\ initSteps' = [initSteps EXCEPT !["listener"] = @ + 1, !["session"] = @ + 1]
    /\ initPc' = "session"
    /\ UNCHANGED <<initPromise, initRun, initFailed>>

\* `await chrome.storage.local.get(onboardingKey)` settles (background.js 45-48).
InitGet ==
    /\ initPc = "get"
    /\ \E ok \in BOOLEAN :
         IF ~ok THEN InitFail /\ UNCHANGED <<authListeners, initialSessionDue, initSteps>>
         ELSE IF onboardingSet THEN InitRegister
         ELSE /\ initPc' = "set"
              /\ UNCHANGED <<initPromise, initRun, initFailed, authListeners,
                             initialSessionDue, initSteps>>
    /\ UNCHANGED <<bgSub, syncVars, session, epoch, channels, chanSeq, remote, nextId,
                   now, faults, storeVars, fnVars, procVars, initRuns, handles, effects,
                   accepted, staleApplied, logoutSnap, obsVars>>

\* `await chrome.storage.local.set({onboarding: false})` settles (background.js 47).
InitSet ==
    /\ initPc = "set"
    /\ \E ok \in BOOLEAN :
         IF ok THEN InitRegister /\ onboardingSet' = TRUE
         ELSE /\ InitFail
              /\ UNCHANGED <<authListeners, initialSessionDue, initSteps, onboardingSet>>
    /\ UNCHANGED <<bgSub, syncVars, session, epoch, channels, chanSeq, remote, nextId,
                   now, faults, cache, autoCapture, fnVars, procVars, initRuns, handles, effects,
                   accepted, staleApplied, logoutSnap, obsVars>>

\* background.js 85-97: start the login flow without awaiting it when a
\* session was found, then resolve the init promise.
InitReady(found) ==
    /\ initPromise' = "fulfilled" /\ initPc' = "idle"
    /\ IF found THEN handleUserLogin("loginInit", epoch) ELSE UNCHANGED procVars
    /\ UNCHANGED <<initRun, bgSub, syncVars, envVars, storeVars, fnVars, initRuns, initFailed,
                   initSteps, handles, effects, accepted, staleApplied, logoutSnap, obsVars>>

\* `await getSession()` inside sessionWithTimeout settles (background.js 59-63).
InitSession ==
    /\ initPc = "session"
    /\ IF session = "user" THEN InitReady(TRUE)
       ELSE /\ initPc' = "refresh"
            /\ UNCHANGED <<initPromise, initRun, bgSub, syncVars, envVars, storeVars, fnVars,
                           procVars, histVars, obsVars>>

\* `await refreshSession()` settles (background.js 62-64).
InitRefresh ==
    /\ initPc = "refresh"
    /\ InitReady(session = "user")

\* a session check whose timeout is thrown on to the catch block of initialize()
InitSessionTimeoutFatal ==
    /\ initPc \in {"session", "refresh"}
    /\ InitFail
    /\ UNCHANGED <<bgSub, syncVars, envVars, storeVars, fnVars, procVars, initRuns,
                   initSteps, handles, effects, accepted, staleApplied, logoutSnap, obsVars>>

\* The 10 s timer wins the race (background.js 66-83): no session, no failure.
InitSessionTimeout ==
    /\ initPc \in {"session", "refresh"}
    /\ InitReady(FALSE)

InitNext == Boot \/ Lifecycle \/ InitGet \/ InitSet \/ InitSession \/ InitRefresh
            \/ InitSessionTimeout

\* ============================================================== helpers
Goto(p, label, l) ==
    /\ pc' = [pc EXCEPT ![p] = label]
    /\ loc' = [loc EXCEPT ![p] = l]

\* The handler returns; `how` records which return was taken, and the
\* session and captures it was started with are kept for the properties.
FinishAs(p, how) ==
    Goto(p, "done", [Idle EXCEPT !.end = how, !.epoch = loc[p].epoch, !.snap = loc[p].snap])

Finish(p) == FinishAs(p, "returned")

\* The session a flow was started under is no longer the current one.
Stale(p) == session = "none" \/ loc[p].epoch # epoch

Bump(e, p) == IF p \in LoginProcs THEN [effects EXCEPT ![e] = @ + 1] ELSE effects

RECURSIVE SortDesc(_)
\* rows ordered by created_at descending (ties: the later id first)
SortDesc(S) ==
    IF S = {} THEN <<>>
    ELSE LET top == CHOOSE r \in S : \A q \in S :
                        r.ts > q.ts \/ (r.ts = q.ts /\ r.id >= q.id)
         IN  <<top>> \o SortDesc(S \ {top})

Take(seq, n) == SubSeq(seq, 1, IF Len(seq) < n THEN Len(seq) ELSE n)

Ids(seq) == {seq[i].id : i \in 1..Len(seq)}

\* ================================================= push subscription
\* unsubscribeFromClipboardChanges (device.js 526-531)
unsubscribeFromClipboardChanges ==
    /\ channels' = channels \ {syncSub}
    /\ syncSub' = 0

\* clearPendingUploads (device.js 676-681)
clearPendingUploads ==
    /\ debounceTimers' = {}
    /\ db' = [h \in Hashes |-> NoBurst]

\* A logout handler that forgets the debounce bookkeeping.
handleUserLogoutKeepTimers ==
    /\ logoutSnap' = [seen |-> TRUE, hadSub |-> syncSub # 0,
                      hadTimers |-> debounceTimers # {}]
    /\ bgSub' = 0
    /\ unsubscribeFromClipboardChanges
    /\ UNCHANGED <<debounceTimers, db>>

\* handleUserLogout (background.js 274-285); synchronous.
handleUserLogout ==
    /\ logoutSnap' = [seen |-> TRUE, hadSub |-> syncSub # 0,
                      hadTimers |-> debounceTimers # {}]
    /\ bgSub' = 0
    /\ unsubscribeFromClipboardChanges
    /\ clearPendingUploads

\* Where a flow continues once setupRealtimeSubscription has returned:
\* the login handler goes on to syncClipboardItems (background.js 180), the
\* wake handler to processPendingUploads (background.js 713).
AfterSetup(p) == IF p \in LoginProcs THEN "fetch_session" ELSE "flush_read"

\* setupRealtimeSubscription up to its await (background.js 290-294)
setupRealtimeSubscription(p, l) ==
    IF bgSub # 0 THEN Goto(p, AfterSetup(p), l) ELSE Goto(p, "sub_session", l)

\* subscribeToClipboardChanges: `await getSession()` settles (device.js 466-473).
\* Without a session it returns null, which setupRealtimeSubscription stores.
SubSession(p) ==
    /\ pc[p] = "sub_session"
    /\ IF session = "none"
       THEN /\ bgSub' = 0
            /\ Goto(p, AfterSetup(p), loc[p])
       ELSE /\ Goto(p, "sub_create", loc[p])
            /\ UNCHANGED bgSub
    /\ UNCHANGED <<initPromise, initRun, initPc, syncVars, envVars, storeVars, fnVars, histVars, obsVars>>

\* subscribeToClipboardChanges: `await getDeviceId()` settles; the existing
\* channel is unsubscribed, a new one created and returned (device.js 473-516);
\* setupRealtimeSubscription stores it (background.js 294).
SubCreate(p) ==
    /\ pc[p] = "sub_create"
    /\ chanSeq' = chanSeq + 1
    /\ channels' = (channels \ {syncSub}) \cup {chanSeq + 1}
    /\ syncSub' = chanSeq + 1
    /\ bgSub' = chanSeq + 1
    /\ effects' = Bump("subscribe", p)
    /\ staleApplied' = (staleApplied \/ Stale(p))
    /\ Goto(p, AfterSetup(p), loc[p])
    /\ UNCHANGED <<initPromise, initRun, initPc, debounceTimers, recentlyUploaded, guardTimers,
                   rateLimitState, session, epoch, authListeners, initialSessionDue,
                   remote, nextId, now, faults, storeVars, fnVars, initRuns, initFailed,
                   initSteps, handles, accepted, logoutSnap, obsVars>>

\* ====================================================== auth events
\* The identity provider signs the user in; a registered listener gets
\* SIGNED_IN (background.js 129-138).
SignIn ==
    /\ session = "none" /\ epoch < MaxSessions
    /\ session' = "user" /\ epoch' = epoch + 1
    /\ effects' = [e \in EffectNames |-> 0]
    /\ IF authListeners > 0
       THEN Free("loginAuth") /\ handleUserLogin("loginAuth", epoch + 1)
       ELSE UNCHANGED procVars
    /\ UNCHANGED <<bgVars, syncVars, authListeners, initialSessionDue, channels, chanSeq,
                   remote, nextId, now, faults, storeVars, fnVars, initRuns, initFailed,
                   initSteps, handles, accepted, staleApplied, logoutSnap, obsVars>>

\* INITIAL_SESSION, emitted once to a newly registered listener
\* (background.js 131-138).
InitialSession ==
    /\ initialSessionDue /\ authListeners > 0
    /\ initialSessionDue' = FALSE
    /\ IF session = "user"
       THEN Free("loginAuth") /\ handleUserLogin("loginAuth", epoch)
       ELSE UNCHANGED procVars
    /\ UNCHANGED <<bgVars, syncVars, session, epoch, authListeners, channels, chanSeq,
                   remote, nextId, now, faults, storeVars, fnVars, histVars, obsVars>>

\* The session ends; a registered listener gets SIGNED_OUT (background.js 140-142).
SignOut ==
    /\ session = "user"
    /\ session' = "none"
    /\ IF authListeners > 0 THEN handleUserLogout
       ELSE UNCHANGED <<logoutSnap, bgSub, channels, syncSub, debounceTimers, db>>
    /\ UNCHANGED <<call, reply, reached, initPromise, initRun, initPc, recentlyUploaded, guardTimers, rateLimitState, epoch,
                   authListeners, initialSessionDue, chanSeq, remote, nextId, now, faults,
                   storeVars, fnVars, procVars, initRuns, initFailed, initSteps, handles, effects,
                   accepted, staleApplied>>

\* ====================================================== login handler
\* `await updateDeviceRecord(user.id)` settles; its errors are swallowed
\* (background.js 169-172, device.js 108-126).
LoginUpsert(p) ==
    /\ pc[p] = "upsert"
    /\ effects' = Bump("upsert", p)
    /\ Goto(p, "login_setup", loc[p])
    /\ UNCHANGED <<bgVars, syncVars, envVars, storeVars, fnVars, initRuns, initFailed, initSteps,
                   handles, accepted, staleApplied, logoutSnap, obsVars>>

\* `await getAutoCaptureSetting()` settles and setupRealtimeSubscription is
\* entered (background.js 172-176).
LoginSetup(p) ==
    /\ pc[p] = "login_setup"
    /\ setupRealtimeSubscription(p, loc[p])
    /\ UNCHANGED <<bgVars, syncVars, envVars, storeVars, fnVars, histVars, obsVars>>

\* ================================================ reconciliation fetch
\* select ... eq(is_deleted,false) order(created_at desc) range(0, limit-1);
\* row level security shows rows only to a signed-in user (schema.sql 85-87).
ServerListing ==
    IF session = "none" THEN <<>>
    ELSE Take(SortDesc({r \in remote : ~r.deleted}), FETCH_LIMIT)

\* itemMap.set(item.id, item): a Map keeps the position of a key it already
\* holds and replaces the value, and appends a new key (device.js 549, 555).
MapSet(itemMap, item) ==
    IF item.id \in Ids(itemMap)
    THEN [i \in 1..Len(itemMap) |-> IF itemMap[i].id = item.id THEN item ELSE itemMap[i]]
    ELSE Append(itemMap, item)

RECURSIVE AddServerItems(_, _)
\* for (const item of serverItems) itemMap.set(item.id, item)  (device.js 548-550)
AddServerItems(itemMap, serverItems) ==
    IF serverItems = <<>> THEN itemMap
    ELSE AddServerItems(MapSet(itemMap, Head(serverItems)), Tail(serverItems))

RECURSIVE AddCachedItems(_, _)
\* for (const item of cachedItems) if (!itemMap.has(item.id) && item.pending) ...
\* (device.js 553-557)
AddCachedItems(itemMap, cachedItems) ==
    IF cachedItems = <<>> THEN itemMap
    ELSE LET item == Head(cachedItems) IN
         AddCachedItems(IF item.id \notin Ids(itemMap) /\ item.pending
                        THEN MapSet(itemMap, item) ELSE itemMap,
                        Tail(cachedItems))

RECURSIVE InsertTiesFirst(_, _)
\* insertion that puts an item BEFORE the items of equal created_at
InsertTiesFirst(item, sorted) ==
    IF sorted = <<>> THEN <<item>>
    ELSE IF Head(sorted).ts > item.ts
         THEN <<Head(sorted)>> \o InsertTiesFirst(item, Tail(sorted))
         ELSE <<item>> \o sorted

RECURSIVE SortTiesReversed(_)
\* what .sort() gives with a comparator that never answers "equal"
\* ((a, b) => a.created_at > b.created_at ? -1 : 1): equal dates change places.
SortTiesReversed(items) ==
    IF items = <<>> THEN <<>>
    ELSE LET n == Len(items) IN
         InsertTiesFirst(items[n], SortTiesReversed(SubSeq(items, 1, n - 1)))

RECURSIVE InsertDesc(_, _)
\* the place of an item among items already in order: after every item whose
\* created_at is later or equal (Array.prototype.sort is stable).
InsertDesc(item, sorted) ==
    IF sorted = <<>> THEN <<item>>
    ELSE IF Head(sorted).ts >= item.ts
         THEN <<Head(sorted)>> \o InsertDesc(item, Tail(sorted))
         ELSE <<item>> \o sorted

RECURSIVE SortByCreatedAtDesc(_)
\* .sort((a, b) => new Date(b.created_at) - new Date(a.created_at))  (device.js 560-561)
SortByCreatedAtDesc(items) ==
    IF items = <<>> THEN <<>>
    ELSE LET n == Len(items) IN
         InsertDesc(items[n], SortByCreatedAtDesc(SubSeq(items, 1, n - 1)))

\* a merge that lets a pending cached item replace the server's item of the same id
mergeCachedWins(serverItems, cachedItems) ==
    LET keep == SelectSeq(cachedItems, LAMBDA c : c.pending)
    IN  SortByCreatedAtDesc(AddServerItems(AddServerItems(<<>>, serverItems), keep))

\* a merge whose comparator never answers "equal"
mergeTiesReversed(serverItems, cachedItems) ==
    SortTiesReversed(AddCachedItems(AddServerItems(<<>>, serverItems), cachedItems))

\* mergeWithLocalCache once the cache has been read (device.js 544-563)
mergeWithLocalCache(serverItems, cachedItems) ==
    SortByCreatedAtDesc(AddCachedItems(AddServerItems(<<>>, serverItems), cachedItems))

\* fetchClipboardItems: `await getSession()` settles (device.js 386-400).
FetchSession(p) ==
    /\ pc[p] = "fetch_session"
    /\ IF session = "none"
       THEN Goto(p, "flush_read", loc[p]) /\ UNCHANGED effects
       ELSE Goto(p, "fetch_query", loc[p]) /\ effects' = Bump("fetch", p)
    /\ UNCHANGED <<bgVars, syncVars, envVars, storeVars, fnVars, initRuns, initFailed, initSteps,
                   handles, accepted, staleApplied, logoutSnap, obsVars>>

\* fetchClipboardItems: the query settles (device.js 407-415); on an error
\* the fetch returns without touching the cache, else cacheItems(data) is issued.
FetchQuery(p) ==
    /\ pc[p] = "fetch_query"
    /\ \/ /\ Goto(p, "fetch_cache", [loc[p] EXCEPT !.cached = ServerListing])
          /\ UNCHANGED faults
       \/ /\ faults < MaxFaults
          /\ faults' = faults + 1
          /\ Goto(p, "flush_read", loc[p])
    /\ UNCHANGED <<bgVars, syncVars, session, epoch, authListeners, initialSessionDue,
                   channels, chanSeq, remote, nextId, now, storeVars, fnVars, histVars, obsVars>>

\* cacheItems (device.js 574-584): the stored list becomes the server listing.
FetchCache(p) ==
    /\ pc[p] = "fetch_cache"
    /\ cache' = loc[p].cached
    /\ staleApplied' = (staleApplied \/ Stale(p))
    /\ Goto(p, "flush_read", [loc[p] EXCEPT !.cached = <<>>])
    /\ UNCHANGED <<bgVars, syncVars, envVars, onboardingSet, autoCapture, fnVars, initRuns,
                   initFailed, initSteps, handles, effects, accepted, logoutSnap, obsVars>>

\* ======================================================== upload pipeline
HardIds == 2 * MaxIds   \* no id is handed out beyond this

\* checkRateLimit (device.js 605-616): resets an expired window, then compares.
RateChecked ==
    IF now - rateLimitState.windowStart > RATE_LIMIT_WINDOW_MS
    THEN [requestCount |-> 0, windowStart |-> now]
    ELSE rateLimitState

\* a comparison that admits one request too many
checkRateLimitInclusive == RateChecked.requestCount <= RATE_LIMIT_MAX_REQUESTS

checkRateLimit == RateChecked.requestCount < RATE_LIMIT_MAX_REQUESTS

\* incrementRateLimit (device.js 621-623)
incrementRateLimit == [rateLimitState EXCEPT !.requestCount = @ + 1]

\* for (const p of pending): the next item, or the end of processPendingUploads
\* (background.js 245-269); the loop re-checks the session first.
FlushNext(p, l) ==
    IF Len(l.queue) <= 1 THEN FinishAs(p, "flushed")
    ELSE Goto(p, "flush_auth", [l EXCEPT !.queue = Tail(@), !.item = NoItem, !.cached = <<>>])

\* Where the caller of uploadClipboardItem continues with the result:
\* processPendingUploads (background.js 254-261), handleClipboardCopied
\* (background.js 486-503), or the UPLOAD_ITEM message handler.
UploadReturn(p, ok, l) ==
    LET r == [l EXCEPT !.log = <<>>] IN
    IF p \in FlushProcs
    THEN IF ok THEN Goto(p, "flush_reread", r) ELSE FlushNext(p, r)
    ELSE IF p = "capture"
    THEN IF ok THEN Goto(p, "cap_read", r) ELSE Goto(p, "pend_read", r)
    ELSE Finish(p)

\* The result performUpload resolves the UPLOAD_ITEM handler's promise with
\* (device.js 289-290, 297; background.js 399-400): its error and the calls
\* the upload made on the session and on the remote store.
Replied(p, err, log) ==
    reply' = IF p = "manual"
             THEN [content |-> loc[p].content, error |-> err, log |-> log]
             ELSE reply

\* a variant that asks the rate limiter before it looks at the guard
EarlyErrorRateFirst(content) ==
    IF IsBlank(content) THEN ErrEmpty
    ELSE IF ~checkRateLimit THEN ErrRate
    ELSE IF hashContent(content) \in recentlyUploaded THEN ErrLoop
    ELSE NoError

\* uploadClipboardItem, the checks before the debounce (device.js 260-276):
\* the error of the first check that fails, NoError when all three pass.
EarlyError(content) ==
    IF IsBlank(content) THEN ErrEmpty
    ELSE IF hashContent(content) \in recentlyUploaded THEN ErrLoop
    ELSE IF ~checkRateLimit THEN ErrRate
    ELSE NoError

\* checkRateLimit is only reached, and only then resets an expired window,
\* when the two checks before it have passed (device.js 261-274, 608-613).
RateAfterChecks(content) ==
    IF EarlyError(content) \in {ErrEmpty, ErrLoop} THEN rateLimitState ELSE RateChecked

\* uploadClipboardItem with skipDebounce up to the first await of
\* performUpload (device.js 254-276, 297, 309).
uploadClipboardItem(p, content, l) ==
    /\ rateLimitState' = RateAfterChecks(content)
    /\ IF EarlyError(content) = NoError
       THEN Goto(p, "up_session", [l EXCEPT !.content = content, !.try = 0, !.log = <<>>])
       ELSE UploadReturn(p, FALSE, l)

\* a session check that counts the refused upload against the rate limit
UpSessionCounting(p) ==
    /\ pc[p] = "up_session"
    /\ LET log == Append(loc[p].log, "session") IN
       IF session = "none"
       THEN UploadReturn(p, FALSE, loc[p]) /\ Replied(p, ErrNoAuth, log)
       ELSE Goto(p, "up_select", [loc[p] EXCEPT !.log = log]) /\ UNCHANGED reply
    /\ reached' = IF p = "manual" /\ session # "none" /\ reached <= RATE_LIMIT_MAX_REQUESTS
                  THEN reached + 1 ELSE reached
    /\ rateLimitState' = IF session = "none" THEN incrementRateLimit ELSE rateLimitState
    /\ UNCHANGED <<bgVars, syncSub, debounceTimers, recentlyUploaded, guardTimers, envVars,
                   storeVars, fnVars, histVars, call, db>>

\* performUpload: `await getSession()` settles (device.js 309-316).
UpSession(p) ==
    /\ pc[p] = "up_session"
    /\ LET log == Append(loc[p].log, "session") IN
       IF session = "none"
       THEN UploadReturn(p, FALSE, loc[p]) /\ Replied(p, ErrNoAuth, log)
       ELSE Goto(p, "up_select", [loc[p] EXCEPT !.log = log]) /\ UNCHANGED reply
    /\ reached' = IF p = "manual" /\ session # "none" /\ reached <= RATE_LIMIT_MAX_REQUESTS
                  THEN reached + 1 ELSE reached
    /\ UNCHANGED <<bgVars, syncVars, envVars, storeVars, fnVars, histVars, call, db>>

\* rows the duplicate query returns (device.js 329-335); row level security
\* hides every row from a client without a session.
ExistingRows(h) ==
    IF session = "none" THEN {}
    ELSE {r \in remote : r.hash = h /\ ~r.deleted}

\* performUpload: the duplicate query settles (device.js 329-342); the
\* getDeviceId/getDeviceName awaits before it are folded into this step.
UpSelect(p) ==
    /\ pc[p] = "up_select"
    /\ LET log == Append(loc[p].log, "select") IN
       IF ExistingRows(hashContent(loc[p].content)) # {}
       THEN UploadReturn(p, FALSE, loc[p]) /\ Replied(p, ErrDup, log)
       ELSE Goto(p, "up_insert", [loc[p] EXCEPT !.log = log]) /\ UNCHANGED reply
    /\ UNCHANGED <<bgVars, syncVars, envVars, storeVars, fnVars, histVars, call, db, reached>>

\* A variant of the insert that the store rejects when a live row with the
\* same device and hash exists (a unique index).
InsertAllowedUnique(h) ==
    /\ session = "user"
    /\ ~\E r \in remote : r.hash = h /\ r.dev = LocalDevice /\ ~r.deleted

\* The store accepts an insert from a signed-in client (schema.sql 90-92);
\* clipboard_items has no unique constraint on the hash (schema.sql 23-34, 67-68).
InsertAllowed(h) == session = "user"

\* performUpload: one insert attempt inside retryWithBackoff settles
\* (device.js 342-367, 651-666).
UpInsert(p) ==
    /\ pc[p] = "up_insert"
    /\ LET h == hashContent(loc[p].content)
           row == [id |-> nextId + 1, content |-> redactSensitiveData(loc[p].content),
                   hash |-> h, dev |-> LocalDevice, ts |-> now,
                   pending |-> FALSE, deleted |-> FALSE]
           log == Append(loc[p].log, "insert")
       IN
       \/ /\ InsertAllowed(h) /\ nextId < HardIds
          /\ remote' = remote \cup {row}
          /\ nextId' = nextId + 1
          /\ recentlyUploaded' = recentlyUploaded \cup {h}
          /\ guardTimers' = guardTimers \cup {[hash |-> h, due |-> now + UPLOAD_HASH_TTL]}
          /\ rateLimitState' = incrementRateLimit
          /\ staleApplied' = (staleApplied \/ Stale(p))
          /\ UploadReturn(p, TRUE, [loc[p] EXCEPT !.item = row])
          /\ Replied(p, NoError, log)
          /\ UNCHANGED faults
       \/ \* the attempt fails with an error retryWithBackoff retries
          /\ \/ ~InsertAllowed(h) /\ UNCHANGED faults
             \/ InsertAllowed(h) /\ faults < MaxFaults /\ faults' = faults + 1
          /\ Goto(p, "up_backoff", [loc[p] EXCEPT !.log = log])
          /\ UNCHANGED <<remote, nextId, recentlyUploaded, guardTimers, rateLimitState, staleApplied,
                         reply>>
       \/ \* the attempt fails with an auth error: no retry (device.js 657-660)
          /\ ~InsertAllowed(h)
          /\ UploadReturn(p, FALSE, loc[p])
          /\ Replied(p, ErrInsert, log)
          /\ UNCHANGED <<remote, nextId, recentlyUploaded, guardTimers, rateLimitState, staleApplied,
                         faults>>
    /\ UNCHANGED <<bgVars, syncSub, debounceTimers, session, epoch, authListeners,
                   initialSessionDue, channels, chanSeq, now, storeVars, fnVars, initRuns,
                   initFailed, initSteps, handles, effects, accepted, logoutSnap, call, db, reached>>

\* a loop that makes one attempt too many
MoreAttemptsInclusive(i) == i + 1 <= RETRY_ATTEMPTS

\* for (let i = 0; i < attempts; i++): after attempt i, is there another one
\* (device.js 651)
MoreAttempts(i) == i + 1 < RETRY_ATTEMPTS

\* a delay that does not grow
BackoffDelayFlat(i) == RETRY_BASE_DELAY_MS

\* CONFIG.SYNC.RETRY_BASE_DELAY_MS * Math.pow(2, i)  (device.js 663)
BackoffDelay(i) == RETRY_BASE_DELAY_MS * 2^i

\* retryWithBackoff: the backoff delay elapses (device.js 663-670).
UpBackoff(p) ==
    /\ pc[p] = "up_backoff"
    /\ IF MoreAttempts(loc[p].try)
       THEN Goto(p, "up_insert", [loc[p] EXCEPT !.try = @ + 1]) /\ UNCHANGED reply
       ELSE UploadReturn(p, FALSE, loc[p]) /\ Replied(p, ErrInsert, loc[p].log)
    /\ UNCHANGED <<bgVars, syncVars, envVars, storeVars, fnVars, histVars, call, db, reached>>

\* setTimeout(() => recentlyUploaded.delete(hash), UPLOAD_HASH_TTL) fires
\* (device.js 362): each confirmed upload has set its own timeout.
ExpireRecent ==
    /\ \E t \in guardTimers :
         /\ now >= t.due
         /\ recentlyUploaded' = recentlyUploaded \ {t.hash}
         /\ guardTimers' = guardTimers \ {t}
    /\ UNCHANGED <<bgVars, syncSub, debounceTimers, rateLimitState, envVars, storeVars, fnVars,
                   procVars, histVars, obsVars>>

\* ================================================== pending-upload flush
\* processPendingUploads: `await getCachedItems()` settles (background.js 238-248).
FlushRead(p) ==
    /\ pc[p] = "flush_read"
    /\ LET pending == SelectSeq(cache, LAMBDA i : i.pending) IN
       IF pending = <<>> THEN FinishAs(p, "flushed") /\ UNCHANGED effects
       ELSE /\ Goto(p, "flush_auth", [loc[p] EXCEPT !.queue = pending])
            /\ effects' = Bump("flush", p)
    /\ UNCHANGED <<bgVars, syncVars, envVars, storeVars, fnVars, initRuns, initFailed, initSteps,
                   handles, accepted, staleApplied, logoutSnap, obsVars>>

\* a flush that uploads without looking at the session
FlushAuthUnchecked(p) ==
    /\ pc[p] = "flush_auth"
    /\ uploadClipboardItem(p, Head(loc[p].queue).content, loc[p])
    /\ UNCHANGED <<bgVars, syncSub, debounceTimers, recentlyUploaded, guardTimers, envVars, storeVars, fnVars,
                   histVars, obsVars>>

\* processPendingUploads: `await isAuthenticated()` settles for the item at
\* the head of the queue (background.js 248-254).
FlushAuth(p) ==
    /\ pc[p] = "flush_auth"
    /\ IF session = "none"
       THEN FinishAs(p, "aborted") /\ UNCHANGED rateLimitState
       ELSE uploadClipboardItem(p, Head(loc[p].queue).content, loc[p])
    /\ UNCHANGED <<bgVars, syncSub, debounceTimers, recentlyUploaded, guardTimers, envVars, storeVars, fnVars,
                   histVars, obsVars>>

\* processPendingUploads: `await getCachedItems()` settles after a successful
\* upload (background.js 257).
FlushReread(p) ==
    /\ pc[p] = "flush_reread"
    /\ Goto(p, "flush_write", [loc[p] EXCEPT !.cached = cache])
    /\ UNCHANGED <<bgVars, syncVars, envVars, storeVars, fnVars, histVars, obsVars>>

\* .map(i => i.id === p.id ? res.item : i).slice(0, MAX_ITEMS)
ReplacePending(cached, pid, item) ==
    Take([i \in 1..Len(cached) |-> IF cached[i].id = pid THEN item ELSE cached[i]],
         MAX_ITEMS)

\* processPendingUploads: `await updateCachedItems(updated)` settles
\* (background.js 258-261).
FlushWrite(p) ==
    /\ pc[p] = "flush_write"
    /\ cache' = ReplacePending(loc[p].cached, Head(loc[p].queue).id, loc[p].item)
    /\ staleApplied' = (staleApplied \/ Stale(p))
    /\ FlushNext(p, loc[p])
    /\ UNCHANGED <<bgVars, syncVars, envVars, onboardingSet, autoCapture, fnVars, initRuns,
                   initFailed, initSteps, handles, effects, accepted, logoutSnap, obsVars>>

\* =========================================================== periodic wake
\* chrome.alarms.onAlarm listener (background.js 683-699).
Alarm ==
    /\ Booted /\ Free("wake")
    /\ Goto("wake", "wake_auth", Idle)
    /\ UNCHANGED <<bgVars, syncVars, envVars, storeVars, fnVars, histVars, obsVars>>

\* a wake that goes to the flush without looking at the subscription
WakeAuthNoSetup ==
    /\ pc["wake"] = "wake_auth"
    /\ IF session = "none" THEN Finish("wake")
       ELSE Goto("wake", "flush_read", [loc["wake"] EXCEPT !.epoch = epoch])
    /\ UNCHANGED <<bgVars, syncVars, envVars, storeVars, fnVars, histVars, obsVars>>

\* handleAlarmWake: `await isAuthenticated()` settles (background.js 699-713).
WakeAuth ==
    /\ pc["wake"] = "wake_auth"
    /\ IF session = "none" THEN Finish("wake")
       ELSE setupRealtimeSubscription("wake", [loc["wake"] EXCEPT !.epoch = epoch])
    /\ UNCHANGED <<bgVars, syncVars, envVars, storeVars, fnVars, histVars, obsVars>>

\* ========================================================= capture handler
\* a write that leaves an older copy of the item in the list
PrependKeepingOld(item, cached) == Take(<<item>> \o cached, MAX_ITEMS)

\* a write that does not cut the list
PrependUncut(item, cached) ==
    <<item>> \o SelectSeq(cached, LAMBDA i : i.id # item.id)

\* [item, ...cached.filter(i => i.id !== item.id)].slice(0, MAX_ITEMS)
Prepend(item, cached) ==
    Take(<<item>> \o SelectSeq(cached, LAMBDA i : i.id # item.id), MAX_ITEMS)

\* onMessage listener for CLIPBOARD_COPIED (background.js 739-779): triggers
\* initialize() and runs handleClipboardCopied without waiting for it, up to
\* `await getAutoCaptureSetting()` (background.js 437-448).
CaptureMessage ==
    /\ Booted /\ Free("capture") /\ nextId < MaxIds
    /\ initialize("message")
    /\ \E c \in Contents : Goto("capture", "cap_auto", [Idle EXCEPT !.content = c, !.ts = now])
    /\ UNCHANGED <<bgSub, syncVars, envVars, storeVars, fnVars, effects, accepted, staleApplied,
                   logoutSnap, obsVars>>

\* `await getAutoCaptureSetting()` settles (background.js 448-458).
CapAuto ==
    /\ pc["capture"] = "cap_auto"
    /\ IF autoCapture THEN Goto("capture", "cap_auth", loc["capture"]) ELSE Finish("capture")
    /\ UNCHANGED <<bgVars, syncVars, envVars, storeVars, fnVars, histVars, obsVars>>

\* `await isAuthenticated()` settles (background.js 458-463, 483-486).
CapAuth ==
    /\ pc["capture"] = "cap_auth"
    /\ IF session = "user"
       THEN uploadClipboardItem("capture", loc["capture"].content, loc["capture"])
       ELSE Goto("capture", "cap_strict", loc["capture"]) /\ UNCHANGED rateLimitState
    /\ UNCHANGED <<bgVars, syncSub, debounceTimers, recentlyUploaded, guardTimers, envVars, storeVars, fnVars,
                   histVars, obsVars>>

\* `await getSession()` of the strict check settles (background.js 463-467).
CapStrict ==
    /\ pc["capture"] = "cap_strict"
    /\ IF session = "user"
       THEN uploadClipboardItem("capture", loc["capture"].content, loc["capture"])
       ELSE Goto("capture", "cap_refresh", loc["capture"]) /\ UNCHANGED rateLimitState
    /\ UNCHANGED <<bgVars, syncSub, debounceTimers, recentlyUploaded, guardTimers, envVars, storeVars, fnVars,
                   histVars, obsVars>>

\* a handler that gives the capture up when it finds no session
CapRefreshDiscarding ==
    /\ pc["capture"] = "cap_refresh"
    /\ IF session = "user"
       THEN uploadClipboardItem("capture", loc["capture"].content, loc["capture"])
       ELSE Finish("capture") /\ UNCHANGED rateLimitState
    /\ UNCHANGED <<bgVars, syncSub, debounceTimers, recentlyUploaded, guardTimers, envVars, storeVars, fnVars,
                   histVars, obsVars>>

\* `await refreshSession()` settles (background.js 466-486); without a
\* session addPendingCachedItem is entered.
CapRefresh ==
    /\ pc["capture"] = "cap_refresh"
    /\ IF session = "user"
       THEN uploadClipboardItem("capture", loc["capture"].content, loc["capture"])
       ELSE /\ Goto("capture", "pend_read", [loc["capture"] EXCEPT !.end = "unauth"])
            /\ UNCHANGED rateLimitState
    /\ UNCHANGED <<bgVars, syncSub, debounceTimers, recentlyUploaded, guardTimers, envVars, storeVars, fnVars,
                   histVars, obsVars>>

\* addPendingCachedItem: the item is built with a fresh id and the raw
\* payload content, `await getCachedItems()` settles (background.js 201-223).
PendRead ==
    /\ pc["capture"] = "pend_read"
    /\ nextId < HardIds
    /\ nextId' = nextId + 1
    /\ Goto("capture", "pend_write",
            [loc["capture"] EXCEPT
               !.item = [id |-> nextId + 1, content |-> loc["capture"].content,
                         hash |-> NoHash, dev |-> LocalDevice, ts |-> loc["capture"].ts,
                         pending |-> TRUE, deleted |-> FALSE],
               !.cached = cache])
    /\ UNCHANGED <<bgVars, syncVars, session, epoch, authListeners, initialSessionDue,
                   channels, chanSeq, remote, now, faults, storeVars, fnVars, histVars, obsVars>>

\* addPendingCachedItem: `await updateCachedItems(merged)` settles
\* (background.js 223-227); handleClipboardCopied returns
\* { success: true, pending: true } when it found no session (background.js
\* 480), else the failed upload's result (background.js 505).
PendWrite ==
    /\ pc["capture"] = "pend_write"
    /\ cache' = Prepend(loc["capture"].item, loc["capture"].cached)
    /\ accepted' = accepted \cup
           {[hash |-> hashContent(loc["capture"].content),
             why  |-> IF loc["capture"].end = "unauth" THEN "unauth" ELSE "failed"]}
    /\ FinishAs("capture", IF loc["capture"].end = "unauth" THEN "pending" ELSE "failed")
    /\ UNCHANGED <<bgVars, syncVars, envVars, onboardingSet, autoCapture, fnVars, initRuns,
                   initFailed, initSteps, handles, effects, staleApplied, logoutSnap, obsVars>>

\* handleClipboardCopied after a successful upload: `await getCachedItems()`
\* settles (background.js 489-493).
CapRead ==
    /\ pc["capture"] = "cap_read"
    /\ Goto("capture", "cap_write", [loc["capture"] EXCEPT !.cached = cache])
    /\ UNCHANGED <<bgVars, syncVars, envVars, storeVars, fnVars, histVars, obsVars>>

\* `await updateCachedItems(merged)` settles (background.js 494-505).
CapWrite ==
    /\ pc["capture"] = "cap_write"
    /\ cache' = Prepend(loc["capture"].item, loc["capture"].cached)
    /\ Finish("capture")
    /\ UNCHANGED <<bgVars, syncVars, envVars, onboardingSet, autoCapture, fnVars, histVars, obsVars>>

\* ===================================================== debounced upload
HasTimer(h) == \E t \in debounceTimers : t.hash = h

\* UPLOAD_ITEM message without skipDebounce, answered once initialization
\* has settled (background.js 399-400, 781; device.js 254-295): the timer
\* for the hash is replaced.
\* a variant that leaves the timer of an earlier call for the hash running
ScheduleKeepingOld(timers, h, c) ==
    timers \cup {[hash |-> h, content |-> c, due |-> now + DEBOUNCE_MS]}

\* clearTimeout(debounceTimers.get(contentHash)); setTimeout(..., DEBOUNCE_MS);
\* debounceTimers.set(contentHash, timer)  (device.js 279-294)
Schedule(timers, h, c) ==
    {t \in timers : t.hash # h} \cup {[hash |-> h, content |-> c, due |-> now + DEBOUNCE_MS]}

\* a call for the hash has reached the debounce: its burst is open
Opened(h) == [db EXCEPT ![h] = [open |-> TRUE, last |-> now]]

\* a timer of the hash has run: the burst is over
Fired(h) == [db EXCEPT ![h] = NoBurst]

\* UPLOAD_ITEM message, answered once initialization has settled
\* (background.js 399-400, 781): uploadClipboardItem(payload.content,
\* payload.options) up to its return or its first await (device.js 254-297).
UploadItem(c, skipDebounce) ==
    /\ Booted /\ initPromise \in {"fulfilled", "rejected"}
    /\ initialize("message")
    /\   LET h == hashContent(c)
             made(outcome) == [content |-> c, outcome |-> outcome]
         IN
         /\ rateLimitState' = RateAfterChecks(c)
         /\ IF EarlyError(c) # NoError
            THEN /\ call' = made(EarlyError(c))
                 /\ UNCHANGED <<debounceTimers, db, procVars>>
            ELSE IF skipDebounce
            THEN /\ Free("manual")
                 /\ call' = made("started")
                 /\ Goto("manual", "up_session", [Idle EXCEPT !.content = c, !.epoch = epoch])
                 /\ UNCHANGED <<debounceTimers, db>>
            ELSE /\ call' = made("scheduled")
                 /\ debounceTimers' = Schedule(debounceTimers, h, c)
                 /\ db' = Opened(h)
                 /\ UNCHANGED procVars
    /\ UNCHANGED <<bgSub, syncSub, recentlyUploaded, guardTimers, envVars, storeVars, fnVars,
                   effects, accepted, staleApplied, logoutSnap, reply, reached>>

\* any UPLOAD_ITEM message
UploadItemMessage == \E c \in MessageContents, skipDebounce \in BOOLEAN : UploadItem(c, skipDebounce)

\* an UPLOAD_ITEM message with a text, to be debounced
UploadItemDebounced == \E c \in Contents : UploadItem(c, FALSE)

\* The debounce timer fires (device.js 287-291): performUpload starts.
TimerFire ==
    /\ Free("manual")
    /\ \E t \in debounceTimers :
         /\ now >= t.due
         /\ debounceTimers' = debounceTimers \ {t}
         /\ db' = Fired(t.hash)
         /\ Goto("manual", "up_session",
                 [Idle EXCEPT !.content = t.content, !.epoch = epoch, !.ts = t.due])
    /\ UNCHANGED <<bgVars, syncSub, recentlyUploaded, guardTimers, rateLimitState, envVars, storeVars, fnVars,
                   histVars, call, reply, reached>>

\* initTask = initialize().catch(...) of the listener (background.js 752-755):
\* the promise it was handed has settled, fulfilled or rejected.
InitSettled(run) == ~(initRun = run /\ initPromise = "pending")

\* onMessage listener for a message that is neither PING nor
\* CLIPBOARD_COPIED (background.js 739-783), here GET_ITEMS: initialize()
\* is triggered and the handler is chained on the promise it returns.
QueryArrive ==
    /\ Booted /\ Free("query")
    /\ initialize("message")
    /\ Goto("query", "await_init",
            [Idle EXCEPT !.try = IF initPromise # "null" THEN initRun ELSE initRuns + 1])
    /\ UNCHANGED <<bgSub, syncVars, envVars, storeVars, fnVars, effects, accepted, staleApplied,
                   logoutSnap, obsVars>>

\* initTask.then(handleAndRespond) runs (background.js 757-781):
\* handleMessage returns getCachedItems() (background.js 395-396) and
\* sendResponse is called with the items read.
QueryHandle ==
    /\ pc["query"] = "await_init"
    /\ InitSettled(loc["query"].try)
    /\ Goto("query", "done", [Idle EXCEPT !.end = "answered", !.try = loc["query"].try,
                                          !.cached = cache])
    /\ UNCHANGED <<bgVars, syncVars, envVars, storeVars, fnVars, histVars, obsVars>>

\* ============================================================ push events
\* Another device of the same user uploads a text (its own duplicate check
\* has passed).
OtherDeviceInsert ==
    /\ nextId < MaxIds
    /\ \E c \in Contents :
         /\ ~\E r \in remote : r.hash = hashContent(c) /\ ~r.deleted
         /\ remote' = remote \cup
               {[id |-> nextId + 1, content |-> redactSensitiveData(c),
                 hash |-> hashContent(c), dev |-> OtherDevice, ts |-> now,
                 pending |-> FALSE, deleted |-> FALSE]}
    /\ nextId' = nextId + 1
    /\ UNCHANGED <<bgVars, syncVars, session, epoch, authListeners, initialSessionDue,
                   channels, chanSeq, now, faults, storeVars, fnVars, procVars, histVars, obsVars>>

\* A row is soft-deleted (deleteClipboardItem, device.js 429-456, run by the
\* popup or by another device).
SoftDelete ==
    /\ \E r \in remote :
         /\ ~r.deleted
         /\ remote' = (remote \ {r}) \cup {[r EXCEPT !.deleted = TRUE]}
    /\ UNCHANGED <<bgVars, syncVars, session, epoch, authListeners, initialSessionDue,
                   channels, chanSeq, nextId, now, faults, storeVars, fnVars, procVars, histVars, obsVars>>

ChannelActive == syncSub # 0 /\ syncSub \in channels

\* a handler that hands every INSERT event to the callback
InsertDeliveredAll(row) == TRUE

\* if (payload.new.device_id !== deviceId) onInsert?.(payload.new)
\* (device.js 490-495)
InsertDelivered(row) == row.dev # LocalDevice

\* INSERT event on the channel (device.js 480-496): an event is delivered at
\* least once and in any order, for the rows of every device of the user
\* that were inserted since the worker started (ids above 0); the handler
\* drops the events of this device's rows.  The insert callback runs up to
\* `await getCachedItems()` (background.js 296-299).
PushInsert ==
    /\ ChannelActive /\ Free("push")
    /\ \E r \in {q \in remote : q.id > 0} :
         IF InsertDelivered(r)
         THEN Goto("push", "push_ins_read",
                   [Idle EXCEPT !.item = [r EXCEPT !.deleted = FALSE], !.snap = loc["push"].snap])
         ELSE UNCHANGED procVars
    /\ UNCHANGED <<bgVars, syncVars, envVars, storeVars, fnVars, histVars, obsVars>>

\* UPDATE event for a soft-deleted row (device.js 505-510); the delete
\* callback runs up to `await getCachedItems()` (background.js 309-312).
PushDelete ==
    /\ ChannelActive /\ Free("push")
    /\ \E r \in remote :
         /\ r.deleted
         /\ Goto("push", "push_del_read", [Idle EXCEPT !.item = r, !.snap = loc["push"].snap])
    /\ UNCHANGED <<bgVars, syncVars, envVars, storeVars, fnVars, histVars, obsVars>>

\* `await getCachedItems()` settles in a push callback (background.js 299, 312).
PushRead ==
    /\ pc["push"] \in {"push_ins_read", "push_del_read"}
    /\ Goto("push", IF pc["push"] = "push_ins_read" THEN "push_ins_write" ELSE "push_del_write",
            [loc["push"] EXCEPT !.cached = cache])
    /\ UNCHANGED <<bgVars, syncVars, envVars, storeVars, fnVars, histVars, obsVars>>

\* `await updateCachedItems(...)` settles in a push callback (background.js 300-302, 313-314).
\* The ids whose soft-delete the delete callback has applied to the cache
\* are kept in `snap` for the properties.
PushWrite ==
    /\ pc["push"] \in {"push_ins_write", "push_del_write"}
    /\ cache' = IF pc["push"] = "push_ins_write"
                THEN Prepend(loc["push"].item, loc["push"].cached)
                ELSE SelectSeq(loc["push"].cached, LAMBDA i : i.id # loc["push"].item.id)
    /\ Goto("push", "done",
            [Idle EXCEPT !.end = "returned",
                         !.snap = IF pc["push"] = "push_del_write"
                                  THEN loc["push"].snap \cup {loc["push"].item.id}
                                  ELSE loc["push"].snap])
    /\ UNCHANGED <<bgVars, syncVars, envVars, onboardingSet, autoCapture, fnVars, histVars, obsVars>>

\* ==================================================================== clock
\* when the live timers are due: debounce timers, guard-expiry timers and
\* the backoff wait of a retryWithBackoff caller
Dues ==
    {t.due : t \in guardTimers} \cup {t.due : t \in debounceTimers}
        \cup (IF rw.pc = "wait" THEN {rw.due} ELSE {})

\* instants at which the clock is looked at besides the moments a timer is due
Instants == {1000 * k : k \in 0..MaxSeconds}
            \cup {DEBOUNCE_MS \div 2, RATE_LIMIT_WINDOW_MS, RATE_LIMIT_WINDOW_MS + 1}

\* Time passes.  A timer runs when it is due: the clock does not pass a
\* live timer's due time before that timer's callback has run.
TickOn(grid, horizon) ==
    /\ \E t \in grid \cup Dues :
         /\ t > now /\ t <= horizon
         /\ \A d \in Dues : t <= d
         /\ now' = t
    /\ UNCHANGED <<bgVars, syncVars, session, epoch, authListeners, initialSessionDue,
                   channels, chanSeq, remote, nextId, faults, storeVars, procVars,
                   histVars, obsVars, fnVars>>

\* the clock up to the start of the next rate-limit window
Tick == TickOn(Instants, RATE_LIMIT_WINDOW_MS + 1)

\* the clock of a few debounce delays: looked at in the middle of a delay too
TickDebounce == TickOn({DEBOUNCE_MS \div 2}, DEBOUNCE_MS * (MaxSeconds + 1))

\* the clock of the push events: looked at every second
TickPush == TickOn({1000 * k : k \in 1..MaxSeconds}, 1000 * MaxSeconds)

\* the clock until after a guard entry has expired: looked at when a timer is due
TickGuard == TickOn({}, UPLOAD_HASH_TTL + 1000 * MaxSeconds)

\* =============================================== the rate limiter, called
MaxRecords == RATE_LIMIT_MAX_REQUESTS + 2   \* record() calls a caller makes in one window

\* checkRateLimit() is called (device.js 605-616).  The caller keeps its own
\* account: when the window it knows has been over for more than the window
\* duration it starts a new one with no records.
RateAdmit ==
    /\ rateLimitState' = RateChecked
    /\ rl' = [pc |-> "admitted",
              start |-> IF now > rl.start + RATE_LIMIT_WINDOW_MS THEN now ELSE rl.start,
              records |-> IF now > rl.start + RATE_LIMIT_WINDOW_MS THEN 0 ELSE rl.records,
              last |-> checkRateLimit]
    /\ UNCHANGED <<bgVars, syncSub, debounceTimers, recentlyUploaded, guardTimers, envVars,
                   storeVars, procVars, histVars, obsVars, mg, rw, rx, cs>>

\* incrementRateLimit() is called (device.js 621-623)
RateRecord ==
    /\ rl.records < MaxRecords
    /\ rateLimitState' = incrementRateLimit
    /\ rl' = [rl EXCEPT !.pc = "recorded", !.records = @ + 1]
    /\ UNCHANGED <<bgVars, syncSub, debounceTimers, recentlyUploaded, guardTimers, envVars,
                   storeVars, procVars, histVars, obsVars, mg, rw, rx, cs>>

NextRate == RateAdmit \/ RateRecord \/ Tick

SpecRate == Init /\ [][NextRate]_vars

\* ============================================== the redaction module, called
\* A text is a sequence of spans; a span one pattern matches is written as
\* that pattern's number, any other span as 1.  A position in the text is
\* the number of spans before it.
MaxSpans == 2
Patterns == <<"ssn", "credit_card", "password", "token">>
PASSWORD_PATTERNS == <<"password", "token">>
Spans == {1, SsnSpan, CcSpan, PwdSpan, TokenSpan}
Texts == UNION {[1..n -> Spans] : n \in 0..MaxSpans}

SpanOf(pattern) ==
    CASE pattern = "ssn" -> SsnSpan
      [] pattern = "credit_card" -> CcSpan
      [] pattern = "password" -> PwdSpan
      [] OTHER -> TokenSpan

\* pattern.exec on a global-flag RegExp: the search starts at lastIndex;
\* the end of the first match found from there, 0 when there is none.  It
\* is also the lastIndex the call leaves behind.
MatchEnd(pattern, text, lastIndex) ==
    LET hits == {i \in 1..Len(text) : i > lastIndex /\ text[i] = SpanOf(pattern)}
    IN  IF hits = {} THEN 0 ELSE CHOOSE i \in hits : \A j \in hits : i <= j

\* pattern.test(text) with the pattern's lastIndex as it is
test(pattern, text, lastIndex) == MatchEnd(pattern, text, lastIndex) # 0

\* text.replace(pattern, replacement): a global-flag pattern is matched from
\* position 0 whatever its lastIndex, every match is replaced
replace(pattern, text) ==
    [i \in 1..Len(text) |-> IF text[i] = SpanOf(pattern) THEN RedactedSpan ELSE text[i]]

\* how often the callback of text.replace(pattern, callback) is called
Matches(pattern, text) == Cardinality({i \in 1..Len(text) : text[i] = SpanOf(pattern)})

\* Array.prototype.includes
HasTag(types, tag) == \E i \in 1..Len(types) : types[i] = tag

\* the loop over PASSWORD_PATTERNS of redactSensitiveData, from pattern k on
\* (redaction.js 45-53): what it makes of the text and of the tags so far
RECURSIVE RedactPasswords(_, _, _, _)
RedactPasswords(k, text, types, lastIndex) ==
    IF k > Len(PASSWORD_PATTERNS) THEN [redacted |-> text, types |-> types]
    ELSE LET pattern == PASSWORD_PATTERNS[k] IN
         IF test(pattern, text, lastIndex[pattern])
         THEN RedactPasswords(k + 1, replace(pattern, text),
                              IF HasTag(types, "password") THEN types
                              ELSE Append(types, "password"),
                              lastIndex)
         ELSE RedactPasswords(k + 1, text, types, lastIndex)

\* redactSensitiveData(content) when the patterns' lastIndex are as given
\* (redaction.js 13-60): the redacted text and redactionTypes.  The valid
\* card numbers are the spans written CcSpan; the callback pushes its tag
\* for each of them.
redactSensitiveDataFrom(content, lastIndex) ==
    IF content = <<>> THEN [redacted |-> content, types |-> <<>>]
    ELSE LET ssn == test("ssn", content, lastIndex["ssn"])
             r1  == IF ssn THEN replace("ssn", content) ELSE content
             t1  == IF ssn THEN <<"ssn">> ELSE <<>>
             cc  == test("credit_card", content, 0)
             r2  == IF cc THEN replace("credit_card", r1) ELSE r1
             t2  == IF cc THEN t1 \o [k \in 1..Matches("credit_card", r1) |-> "credit_card"]
                    ELSE t1
         IN  RedactPasswords(1, r2, t2, lastIndex)

\* the lastIndex of every pattern when redactSensitiveData returns: a test
\* that fails and a replace both leave 0 (redaction.js 23-28, 41, 46-52, 68)
IndexAfterRedact(content, lastIndex) ==
    IF content = <<>> THEN lastIndex ELSE FreshIndex

\* the loop over PASSWORD_PATTERNS of detectSensitiveData, from pattern k on
\* (redaction.js 145-151): it stops at the first pattern that matches
RECURSIVE DetectPasswords(_, _, _)
DetectPasswords(k, content, lastIndex) ==
    IF k > Len(PASSWORD_PATTERNS) THEN [found |-> FALSE, lastIndex |-> lastIndex]
    ELSE LET pattern == PASSWORD_PATTERNS[k]
             end == MatchEnd(pattern, content, 0)
             li  == [lastIndex EXCEPT ![pattern] = end]
         IN  IF end # 0 THEN [found |-> TRUE, lastIndex |-> li]
             ELSE DetectPasswords(k + 1, content, li)

\* detectSensitiveData(content) (redaction.js 125-157): its types, and the
\* lastIndex it leaves: each pattern is reset and tested once
detectSensitiveDataFrom(content, lastIndex) ==
    IF content = <<>> THEN [types |-> <<>>, lastIndex |-> lastIndex]
    ELSE LET ssn == MatchEnd("ssn", content, 0)
             cc  == MatchEnd("credit_card", content, 0)
             pw  == DetectPasswords(1, content,
                        [lastIndex EXCEPT !["ssn"] = ssn, !["credit_card"] = cc])
         IN  [types |-> (IF ssn # 0 THEN <<"ssn">> ELSE <<>>)
                        \o (IF cc # 0 THEN <<"credit_card">> ELSE <<>>)
                        \o (IF pw.found THEN <<"password">> ELSE <<>>),
              lastIndex |-> pw.lastIndex]

\* a caller calls redactSensitiveData
RedactCall ==
    /\ \E content \in Texts :
         LET r == redactSensitiveDataFrom(content, rx.lastIndex) IN
         rx' = [pc |-> "redacted", arg |-> content, redacted |-> r.redacted,
                types |-> r.types, lastIndex |-> IndexAfterRedact(content, rx.lastIndex)]
    /\ UNCHANGED <<bgVars, syncVars, envVars, storeVars, procVars, histVars, obsVars,
                   mg, rw, rl, cs>>

\* a caller calls detectSensitiveData
DetectCall ==
    /\ \E content \in Texts :
         LET d == detectSensitiveDataFrom(content, rx.lastIndex) IN
         rx' = [pc |-> "detected", arg |-> content, redacted |-> <<>>,
                types |-> d.types, lastIndex |-> d.lastIndex]
    /\ UNCHANGED <<bgVars, syncVars, envVars, storeVars, procVars, histVars, obsVars,
                   mg, rw, rl, cs>>

NextRedact == RedactCall \/ DetectCall

SpecRedact == Init /\ [][NextRedact]_vars

\* ========================================================= content script
MaxCopies == 3   \* copy events of one page

\* a copy handler that has no debounce, only the same-content check
handleCopyUndebounced(content) ==
    IF ~cs.captureEnabled THEN cs
    ELSE LET timed == [cs EXCEPT !.lastCopyTime = cs.clock] IN
         IF IsBlank(content) \/ content = cs.lastCopiedContent THEN timed
         ELSE [timed EXCEPT !.lastCopiedContent = content,
                            !.sent = Append(@, [content |-> content, at |-> cs.clock])]

\* handleCopy (content.js 65-114) for a copy event whose selected text is
\* `content`: the script's state after it, `sent` longer by one when a
\* CLIPBOARD_COPIED message went to the background worker.
handleCopy(content) ==
    IF ~cs.captureEnabled THEN cs
    ELSE IF cs.clock - cs.lastCopyTime < COPY_DEBOUNCE_MS THEN cs
    ELSE LET timed == [cs EXCEPT !.lastCopyTime = cs.clock] IN
         IF IsBlank(content) \/ content = cs.lastCopiedContent THEN timed
         ELSE [timed EXCEPT !.lastCopiedContent = content,
                            !.sent = Append(@, [content |-> content, at |-> cs.clock])]

\* The page dispatches a copy event (content.js 44).
CopyEvent ==
    /\ cs.copies < MaxCopies
    /\ \E content \in MessageContents :
         cs' = [handleCopy(content) EXCEPT !.copies = cs.copies + 1,
                                           !.event = [content |-> content, at |-> cs.clock]]
    /\ UNCHANGED <<bgVars, syncVars, envVars, storeVars, procVars, histVars, obsVars,
                   mg, rw, rl, rx>>

\* The auto-capture setting changes in storage, or the worker sends
\* ENABLE_CAPTURE / DISABLE_CAPTURE (content.js 50-55, 123-137).
CaptureToggle ==
    /\ cs' = [cs EXCEPT !.captureEnabled = ~@]
    /\ UNCHANGED <<bgVars, syncVars, envVars, storeVars, procVars, histVars, obsVars,
                   mg, rw, rl, rx>>

\* Date.now() of the page moves on by half a debounce delay.
CopyTick ==
    /\ cs.clock < COPY_DEBOUNCE_MS + 1000 * MaxSeconds
    /\ cs' = [cs EXCEPT !.clock = @ + COPY_DEBOUNCE_MS \div 2]
    /\ UNCHANGED <<bgVars, syncVars, envVars, storeVars, procVars, histVars, obsVars,
                   mg, rw, rl, rx>>

NextCopy == CopyEvent \/ CaptureToggle \/ CopyTick

SpecCopy == Init /\ [][NextCopy]_vars

\* ================================================ retryWithBackoff, called
\* An error message is the sequence of its character codes.
MsgAuth    == <<97, 117, 116, 104>>       \* "auth"
MsgAuthCap == <<65, 117, 116, 104>>       \* "Auth"
MsgNet     == <<110, 101, 116>>           \* "net"
NoStatus   == 0                           \* err.status is undefined

\* String.prototype.includes: some substring of msg equals pat
Includes(msg, pat) ==
    \E k \in 1..(Len(msg) - Len(pat) + 1) : SubSeq(msg, k, k + Len(pat) - 1) = pat

\* err.message?.includes('auth') || err.status === 401  (device.js 658)
IsAuthError(err) == Includes(err.message, MsgAuth) \/ err.status = 401

\* what the function handed to retryWithBackoff can throw
Errors == {[message |-> m, status |-> st] : m \in {MsgAuth, MsgAuthCap, MsgNet},
                                            st \in {NoStatus, 401, 500}}

\* retryWithBackoff(fn) is called with the default number of attempts
\* (device.js 648-651)
RetryStart ==
    /\ rw.pc = "idle"
    /\ rw' = [RwIdle EXCEPT !.pc = IF 0 < RETRY_ATTEMPTS THEN "call" ELSE "rejected"]
    /\ UNCHANGED <<bgVars, syncVars, envVars, storeVars, procVars, histVars, obsVars, mg, rl, rx, cs>>

\* `await fn()` settles (device.js 652-666): the value is returned, or the
\* error is thrown on when it is an auth error, or the backoff delay
\* RETRY_BASE_DELAY_MS * 2^i is started.
RetryCall ==
    /\ rw.pc = "call"
    /\ \/ rw' = [rw EXCEPT !.pc = "resolved", !.calls = @ + 1,
                           !.result = <<"value", rw.calls + 1>>]
       \/ \E e \in Errors :
            LET err == [message |-> e.message, status |-> e.status, n |-> rw.calls + 1] IN
            IF IsAuthError(err)
            THEN rw' = [rw EXCEPT !.pc = "rejected", !.calls = @ + 1,
                                  !.thrown = Append(@, err), !.result = err]
            ELSE rw' = [rw EXCEPT !.pc = "wait", !.calls = @ + 1,
                                  !.thrown = Append(@, err), !.since = now,
                                  !.due = now + BackoffDelay(rw.i)]
    /\ UNCHANGED <<bgVars, syncVars, envVars, storeVars, procVars, histVars, obsVars, mg, rl, rx, cs>>

\* the backoff timer runs (device.js 666-670): next attempt, or, after the
\* last one, `throw lastError`
RetryWake ==
    /\ rw.pc = "wait" /\ now >= rw.due
    /\ rw' = [rw EXCEPT !.i = @ + 1,
                        !.waits = Append(@, now - rw.since),
                        !.pc = IF MoreAttempts(rw.i) THEN "call" ELSE "rejected",
                        !.result = IF MoreAttempts(rw.i) THEN @
                                   ELSE rw.thrown[Len(rw.thrown)]]
    /\ UNCHANGED <<bgVars, syncVars, envVars, storeVars, procVars, histVars, obsVars, mg, rl, rx, cs>>

NextRetry == RetryStart \/ RetryCall \/ RetryWake \/ Tick

SpecRetry == Init /\ [][NextRetry]_vars

\* ============================================ mergeWithLocalCache, called
\* item lists a caller can hold: rows of the server (never pending, ids
\* unique by the primary key, schema.sql 24) and cached items (ids unique:
\* every cache write filters the id it adds, background.js 223, 492).
MergeIds   == {1, 2, 3}
MergeTimes == {1, 2}

ServerItem(id, ts) ==
    [id |-> id, content |-> <<1>>, hash |-> hashContent(<<1>>), dev |-> OtherDevice,
     ts |-> ts, pending |-> FALSE, deleted |-> FALSE]

CachedItem(id, ts, pending) ==
    [id |-> id, content |-> <<2>>, hash |-> NoHash, dev |-> LocalDevice,
     ts |-> ts, pending |-> pending, deleted |-> FALSE]

UniqueIds(items) == \A i, j \in 1..Len(items) : items[i].id = items[j].id => i = j

ListsOf(S) == {l \in UNION {[1..n -> S] : n \in 0..MaxMergeLen} : UniqueIds(l)}

ServerLists == ListsOf({ServerItem(id, ts) : id \in MergeIds, ts \in MergeTimes})

CachedLists == ListsOf({CachedItem(id, ts, pd) : id \in MergeIds, ts \in MergeTimes,
                                                 pd \in BOOLEAN})

\* a caller holds a server listing while the cache holds some list
MergeSetup ==
    /\ mg.pc = "idle"
    /\ \E serverItems \in ServerLists, cachedItems \in CachedLists :
         /\ mg' = [MgIdle EXCEPT !.pc = "ready", !.server = serverItems]
         /\ cache' = cachedItems
    /\ UNCHANGED <<bgVars, syncVars, envVars, onboardingSet, autoCapture, procVars,
                   histVars, obsVars, rw, rl, rx, cs>>

\* mergeWithLocalCache(serverItems): `await chrome.storage.local.get(key)`
\* settles and the function returns; when the read throws, the catch block
\* returns serverItems as they are (device.js 538-568).
MergeCall ==
    /\ mg.pc = "ready"
    /\ \E ok \in BOOLEAN :
         mg' = [mg EXCEPT !.pc = "merged",
                          !.reads = Append(@, ok),
                          !.prev = mg.out,
                          !.out = IF ok THEN mergeWithLocalCache(mg.server, cache)
                                  ELSE mg.server]
    /\ UNCHANGED <<bgVars, syncVars, envVars, storeVars, procVars, histVars, obsVars, rw, rl, rx, cs>>

\* the caller stores what it got with cacheItems (device.js 574-584) and,
\* holding the same server listing, is ready to merge again
MergeStore ==
    /\ mg.pc = "merged" /\ Len(mg.reads) < MaxMergeRounds
    /\ cache' = mg.out
    /\ mg' = [mg EXCEPT !.pc = "ready"]
    /\ UNCHANGED <<bgVars, syncVars, envVars, onboardingSet, autoCapture, procVars,
                   histVars, obsVars, rw, rl, rx, cs>>

NextMerge == MergeSetup \/ MergeCall \/ MergeStore

SpecMerge == Init /\ [][NextMerge]_vars

\* ========================================================= specifications
LoginStep(p) ==
    \/ LoginUpsert(p) \/ LoginSetup(p) \/ FetchSession(p) \/ FetchQuery(p) \/ FetchCache(p)

SetupStep(p) == SubSession(p) \/ SubCreate(p)

FlushStep(p) == FlushRead(p) \/ FlushAuth(p) \/ FlushReread(p) \/ FlushWrite(p)

UploadStep(p) == UpSession(p) \/ UpSelect(p) \/ UpInsert(p) \/ UpBackoff(p)

AuthNext == SignIn \/ InitialSession \/ SignOut

CaptureNext == CaptureMessage \/ CapAuto \/ CapAuth \/ CapStrict \/ CapRefresh
               \/ PendRead \/ PendWrite \/ CapRead \/ CapWrite

\* initialization alone: triggers, the init body, the session it finds
NextInit == InitNext \/ SignIn \/ SignOut \/ InitialSession

SpecInit == Init /\ [][NextInit]_vars

\* the whole background worker
Next ==
    \/ InitNext \/ AuthNext
    \/ \E p \in LoginProcs : LoginStep(p)
    \/ \E p \in FlushProcs : SetupStep(p) \/ FlushStep(p)
    \/ \E p \in FlushProcs \cup {"capture", "manual"} : UploadStep(p)
    \/ Alarm \/ WakeAuth
    \/ CaptureNext
    \/ UploadItemMessage \/ TimerFire \/ ExpireRecent
    \/ OtherDeviceInsert \/ SoftDelete \/ PushInsert \/ PushDelete \/ PushRead \/ PushWrite
    \/ Tick

Spec == Init /\ [][Next]_vars

\* The whole worker has too many interleavings to enumerate; each
\* specification below schedules the handlers one group of claims is about
\* and leaves the other handlers unscheduled (a handler that never gets to
\* run is a behaviour of the worker: nothing guarantees its progress).
InitBody == Boot \/ InitGet \/ InitSet \/ InitSession \/ InitRefresh \/ InitSessionTimeout

\* both login handlers and logout: the push-subscription life cycle
NextLogin ==
    \/ InitBody \/ AuthNext
    \/ \E p \in LoginProcs : LoginStep(p) \/ SetupStep(p) \/ FlushRead(p)
    \/ UploadItemDebounced

SpecLogin == Init /\ [][NextLogin]_vars

\* capture handler and the login handler started by an auth event
NextSync ==
    \/ InitBody \/ AuthNext
    \/ \E p \in {"loginAuth"} : LoginStep(p) \/ SetupStep(p) \/ FlushStep(p) \/ UploadStep(p)
    \/ UploadStep("capture")
    \/ CaptureNext

SpecSync == Init /\ [][NextSync]_vars

\* capture handler and periodic wake
NextWake ==
    \/ InitBody \/ AuthNext
    \/ Alarm \/ WakeAuth
    \/ \E p \in {"wake"} : SetupStep(p) \/ FlushStep(p) \/ UploadStep(p)
    \/ UploadStep("capture")
    \/ CaptureNext

SpecWake == Init /\ [][NextWake]_vars

\* The worker has started and initialized without finding a session; the
\* listener has got INITIAL_SESSION.
Started ==
    /\ initPromise = "fulfilled" /\ initRun = 1 /\ initPc = "idle" /\ bgSub = 0
    /\ syncSub = 0 /\ debounceTimers = {} /\ recentlyUploaded = {} /\ guardTimers = {}
    /\ rateLimitState = [requestCount |-> 0, windowStart |-> 0]
    /\ session = "none" /\ epoch = 0
    /\ authListeners = 1 /\ initialSessionDue = FALSE
    /\ channels = {} /\ chanSeq = 0
    /\ remote = {} /\ nextId = 0 /\ now = 0 /\ faults = 0
    /\ cache = <<>> /\ onboardingSet = TRUE /\ autoCapture = TRUE
    /\ pc = [p \in Procs |-> "idle"] /\ loc = [p \in Procs |-> Idle]
    /\ initRuns = 1 /\ initFailed = 0
    /\ initSteps = [s \in InitStepNames |-> 1]
    /\ handles = [t \in Triggers |-> IF t = "boot" THEN 1 ELSE 0]
    /\ effects = [e \in EffectNames |-> 0]
    /\ accepted = {} /\ staleApplied = FALSE
    /\ logoutSnap = [seen |-> FALSE, hadSub |-> FALSE, hadTimers |-> FALSE]
    /\ mg = MgIdle /\ rw = RwIdle /\ rl = RlIdle /\ rx = RxIdle /\ cs = CsIdle
    /\ call = NoCall /\ reply = NoReply /\ db = [h \in Hashes |-> NoBurst] /\ reached = 0

\* rows another device of the user uploaded before this worker started
OldRows ==
    {[id |-> -k, content |-> <<k + 1>>, hash |-> hashContent(<<k + 1>>),
      dev |-> OtherDevice, ts |-> -k, pending |-> FALSE, deleted |-> FALSE]
       : k \in 1..(MAX_ITEMS - 1)}

\* The worker has started without a session after an earlier session ended:
\* the cache still holds the listing the last reconciliation fetch stored
\* (handleUserLogout, background.js 274-285, leaves the cache alone), one
\* item short of MAX_ITEMS.  One more session can start and two more texts
\* can be copied or uploaded by another device.
Warm ==
    /\ initPromise = "fulfilled" /\ initRun = 1 /\ initPc = "idle" /\ bgSub = 0
    /\ syncSub = 0 /\ debounceTimers = {} /\ recentlyUploaded = {} /\ guardTimers = {}
    /\ rateLimitState = [requestCount |-> 0, windowStart |-> 0]
    /\ session = "none" /\ epoch = MaxSessions - 1
    /\ authListeners = 1 /\ initialSessionDue = FALSE
    /\ channels = {} /\ chanSeq = 0
    /\ remote = OldRows /\ nextId = MaxIds - 2 /\ now = 0 /\ faults = 0
    /\ cache = SortDesc(OldRows) /\ onboardingSet = TRUE /\ autoCapture = TRUE
    /\ pc = [p \in Procs |-> "idle"] /\ loc = [p \in Procs |-> Idle]
    /\ initRuns = 1 /\ initFailed = 0
    /\ initSteps = [s \in InitStepNames |-> 1]
    /\ handles = [t \in Triggers |-> IF t = "boot" THEN 1 ELSE 0]
    /\ effects = [e \in EffectNames |-> 0]
    /\ accepted = {} /\ staleApplied = FALSE
    /\ logoutSnap = [seen |-> FALSE, hadSub |-> FALSE, hadTimers |-> FALSE]
    /\ mg = MgIdle /\ rw = RwIdle /\ rl = RlIdle /\ rx = RxIdle /\ cs = CsIdle
    /\ call = NoCall /\ reply = NoReply /\ db = [h \in Hashes |-> NoBurst] /\ reached = 0

\* every writer of the cache: capture handler, login handler (fetch and
\* flush) and the push callbacks
NextCache ==
    \/ SignIn \/ SignOut
    \/ \E p \in {"loginAuth"} : LoginStep(p) \/ SetupStep(p) \/ FlushStep(p) \/ UploadStep(p)
    \/ UploadStep("capture")
    \/ CaptureNext
    \/ OtherDeviceInsert
    \/ PushInsert \/ PushRead \/ PushWrite

SpecCache == Warm /\ [][NextCache]_vars

\* the texts copied while there was no session, as addPendingCachedItem
\* stored them (background.js 211-224)
ParkedItems ==
    LET texts == SortDesc({[id |-> c[1], content |-> c, hash |-> NoHash, dev |-> LocalDevice,
                            ts |-> 0, pending |-> TRUE, deleted |-> FALSE] : c \in Contents})
    IN  [i \in 1..Len(texts) |-> [texts[i] EXCEPT !.id = Len(texts) + 1 - i]]

\* The worker has started without a session and every text of Contents has
\* been copied since: each is a pending item of the cache.
Parked ==
    /\ initPromise = "fulfilled" /\ initRun = 1 /\ initPc = "idle" /\ bgSub = 0
    /\ syncSub = 0 /\ debounceTimers = {} /\ recentlyUploaded = {} /\ guardTimers = {}
    /\ rateLimitState = [requestCount |-> 0, windowStart |-> 0]
    /\ session = "none" /\ epoch = 0
    /\ authListeners = 1 /\ initialSessionDue = FALSE
    /\ channels = {} /\ chanSeq = 0
    /\ remote = {} /\ nextId = Len(ParkedItems) /\ now = 0 /\ faults = 0
    /\ cache = ParkedItems /\ onboardingSet = TRUE /\ autoCapture = TRUE
    /\ pc = [p \in Procs |-> IF p = "capture" THEN "done" ELSE "idle"]
    /\ loc = [p \in Procs |-> IF p = "capture" THEN [Idle EXCEPT !.end = "pending"] ELSE Idle]
    /\ initRuns = 1 /\ initFailed = 0
    /\ initSteps = [s \in InitStepNames |-> 1]
    /\ handles = [t \in Triggers |-> IF t = "lifecycle" THEN 0 ELSE 1]
    /\ effects = [e \in EffectNames |-> 0]
    /\ accepted = {[hash |-> hashContent(c), why |-> "unauth"] : c \in Contents}
    /\ staleApplied = FALSE
    /\ logoutSnap = [seen |-> FALSE, hadSub |-> FALSE, hadTimers |-> FALSE]
    /\ mg = MgIdle /\ rw = RwIdle /\ rl = RlIdle /\ rx = RxIdle /\ cs = CsIdle
    /\ call = NoCall /\ reply = NoReply /\ db = [h \in Hashes |-> NoBurst] /\ reached = 0

\* the periodic wake alone, with sign-in and sign-out at any moment
NextAlarm ==
    \/ SignIn \/ SignOut
    \/ Alarm \/ WakeAuth
    \/ SetupStep("wake") \/ FlushStep("wake") \/ UploadStep("wake")

SpecAlarm == Parked /\ [][NextAlarm]_vars

\* push events of another device's rows, delivered to a subscription the
\* periodic wake has set up
NextPush ==
    \/ SignIn
    \/ Alarm \/ WakeAuth
    \/ SetupStep("wake") \/ FlushRead("wake")
    \/ OtherDeviceInsert \/ SoftDelete
    \/ PushInsert \/ PushDelete \/ PushRead \/ PushWrite
    \/ TickPush

SpecPush == Started /\ [][NextPush]_vars

\* nothing the handler has made is waiting to be looked at
Looked == call = NoCall /\ reply = NoReply

\* The sender of the UPLOAD_ITEM message has looked at what the handler did
\* with its call and at the result it was sent (background.js 781-785).
Received ==
    /\ call # NoCall \/ reply # NoReply
    /\ call' = NoCall /\ reply' = NoReply
    /\ UNCHANGED <<bgVars, syncVars, envVars, storeVars, procVars, histVars, fnVars, db, reached>>

\* the UPLOAD_ITEM handler of a started worker with its debounce and guard
\* timers, under a clock; the sender looks at each result as it is made
NextDebounce ==
    \/ Looked /\ SignIn
    \/ Looked /\ SignOut
    \/ Looked /\ UploadItemMessage
    \/ Looked /\ TimerFire
    \/ Looked /\ UpSession("manual")
    \/ Looked /\ UpSelect("manual")
    \/ Looked /\ UpInsert("manual")
    \/ Looked /\ UpBackoff("manual")
    \/ Looked /\ TickDebounce
    \/ Received

SpecDebounce == Started /\ [][NextDebounce]_vars

\* the same handler until its guard entries expire, while the user deletes rows
NextGuard ==
    \/ Looked /\ SignIn
    \/ Looked /\ UploadItemMessage
    \/ Looked /\ TimerFire
    \/ Looked /\ UpSession("manual")
    \/ Looked /\ UpSelect("manual")
    \/ Looked /\ UpInsert("manual")
    \/ Looked /\ UpBackoff("manual")
    \/ Looked /\ ExpireRecent
    \/ Looked /\ SoftDelete
    \/ Looked /\ TickGuard
    \/ Received

SpecGuard == Started /\ [][NextGuard]_vars

\* the clock until the rate-limit window is over: looked at when a timer is
\* due and when the window has ended
TickWindow == TickOn({RATE_LIMIT_WINDOW_MS + 1}, RATE_LIMIT_WINDOW_MS + 1)

\* an UPLOAD_ITEM message with options.skipDebounce
UploadItemDirect == \E c \in MessageContents : UploadItem(c, TRUE)

\* the undebounced handler over a whole rate-limit window, sessions coming and going
NextWindow ==
    \/ Looked /\ SignIn
    \/ Looked /\ SignOut
    \/ Looked /\ UploadItemDirect
    \/ Looked /\ UpSession("manual")
    \/ Looked /\ UpSelect("manual")
    \/ Looked /\ UpInsert("manual")
    \/ Looked /\ UpBackoff("manual")
    \/ Looked /\ ExpireRecent
    \/ Looked /\ TickWindow
    \/ Received

SpecWindow == Started /\ [][NextWindow]_vars

\* ================================================================ claims
AllSettled == initPc = "idle" /\ \A p \in Procs : Free(p)

InRemote(h) == \E r \in remote : r.hash = h

PendingInCache(h) ==
    \E i \in 1..Len(cache) : cache[i].pending /\ hashContent(cache[i].content) = h

ConfirmedInCache(h) ==
    \E i \in 1..Len(cache) : ~cache[i].pending /\ cache[i].hash = h

\* C1: every capture the capture handler stored as pending because its
\* upload did not succeed is, in every later state, either a row of the
\* remote store or still a pending item of the local cache.
C1_FailedUploadNeverVanishes ==
    \A a \in accepted : InRemote(a.hash) \/ PendingInCache(a.hash)

\* C2: when a login handler has run through its flush under a session that
\* is still current, with no remote call having failed, every capture that
\* was stored as pending while unauthenticated before the login started has
\* a server-confirmed (non-pending) item in the cache.
C2_PendingConfirmedAfterLogin ==
    \A p \in LoginProcs :
       (/\ pc[p] = "done" /\ loc[p].end = "flushed"
        /\ session = "user" /\ loc[p].epoch = epoch /\ faults = 0)
       => \A a \in loc[p].snap : a.why = "unauth" => ConfirmedInCache(a.hash)

\* C3: the cache write of a reconciliation fetch keeps every cached item
\* that is pending and whose id is not in the server listing.
C3_FetchKeepsUnknownPending ==
    [][\A p \in LoginProcs :
         (pc[p] = "fetch_cache" /\ pc'[p] # "fetch_cache")
         => \A i \in 1..Len(cache) :
               (cache[i].pending /\ cache[i].id \notin Ids(loc[p].cached))
               => \E j \in 1..Len(cache') : cache'[j] = cache[i]]_vars

\* C4: initialization is one shared task: a new initialize() body starts
\* only after every earlier one has failed, every trigger is handed the
\* memoized task unless the task it was handed has failed, the auth listener
\* is registered at most once, and a completed initialization has
\* registered the listener and read the session exactly once.
C4_SingleSharedInit ==
    /\ initRuns <= initFailed + 1
    /\ authListeners <= 1
    /\ \A s \in InitStepNames : initSteps[s] <= initFailed + 1
    /\ initPromise = "fulfilled" =>
          /\ initSteps["listener"] = 1 /\ initSteps["session"] = 1
          /\ initSteps["defaults"] >= 1
    /\ \A t \in Triggers : handles[t] \notin {0, initRun} => handles[t] <= initFailed

\* C4 witness: initialization completed and a later trigger was handed the
\* same task as the boot trigger.
C4_Witness ==
    /\ initPromise = "fulfilled" /\ initRuns = 1
    /\ handles["boot"] = 1 /\ handles["lifecycle"] = 1

\* C5: a failed initialization never stays memoized: the memoized promise
\* is never a rejected one.
C5_FailedInitIsCleared == initPromise # "rejected"

\* C6: within one login every login-setup effect (device upsert,
\* subscription creation, initial fetch, flush) is issued at most once by
\* the login handlers.
C6_LoginSetupOnce == \A e \in EffectNames : effects[e] <= 1

\* C7: at most one push channel is subscribed, and no channel is created
\* while the sync module still holds a subscribed one.
C7_SingletonSubscription ==
    [][/\ Cardinality(channels') <= 1
       /\ chanSeq' # chanSeq => syncSub = 0]_vars

\* C8: once SIGNED_OUT has been handled and everything that was in flight
\* has settled, no push subscription exists, both subscription references
\* are clear and nothing was applied for the ended session.
C8_StaleResultsIgnored ==
    (session = "none" /\ logoutSnap.seen /\ AllSettled)
    => (bgSub = 0 /\ syncSub = 0 /\ channels = {} /\ ~staleApplied)

\* C9: the step that handles SIGNED_OUT leaves no subscribed channel, both
\* subscription references null and the debounce timer map empty.
C9_LogoutCleansUp ==
    [][(session = "user" /\ session' = "none" /\ authListeners > 0)
       => (bgSub' = 0 /\ syncSub' = 0 /\ channels' = {} /\ debounceTimers' = {})]_vars

\* C9 witness: SIGNED_OUT was handled with nothing in flight while a
\* subscription and a debounce timer existed, and both are gone.
C9_Witness ==
    /\ logoutSnap.seen /\ logoutSnap.hadSub /\ logoutSnap.hadTimers
    /\ session = "none" /\ AllSettled
    /\ bgSub = 0 /\ channels = {} /\ debounceTimers = {}

\* C10: the remote store never holds two non-deleted rows with the same
\* device id and content hash.
C10_NoDuplicateRows ==
    \A r1, r2 \in remote :
       (r1.dev = r2.dev /\ r1.hash = r2.hash /\ ~r1.deleted /\ ~r2.deleted) => r1 = r2

\* what a merge is to hold: the server items and the pending cached items
\* whose id no server item has
MergeMembers(serverItems, cachedItems) ==
    {serverItems[i] : i \in 1..Len(serverItems)}
    \cup {cachedItems[j] : j \in {k \in 1..Len(cachedItems) :
               cachedItems[k].pending /\ cachedItems[k].id \notin Ids(serverItems)}}

\* C19: whenever mergeWithLocalCache has read the cache and returned, its
\* result holds every server item and exactly those cached items that are
\* pending with an id no server item has, each once, and is ordered by
\* created_at descending.
C19_MergeIsReference ==
    (mg.pc = "merged" /\ mg.reads[Len(mg.reads)])
    => /\ {mg.out[i] : i \in 1..Len(mg.out)} = MergeMembers(mg.server, cache)
       /\ Len(mg.out) = Cardinality(MergeMembers(mg.server, cache))
       /\ \A i, j \in 1..Len(mg.out) : i < j => mg.out[i].ts >= mg.out[j].ts

\* C19 witness: a merge returned in which the server's item won over a
\* pending cached item of the same id and a pending cached item unknown to
\* the server was kept.
C19_Witness ==
    /\ mg.pc = "merged" /\ mg.reads = <<TRUE>>
    /\ \E i \in 1..Len(cache) :
          /\ cache[i].pending /\ cache[i].id \in Ids(mg.server)
          /\ \A k \in 1..Len(mg.out) : mg.out[k] # cache[i]
    /\ \E i \in 1..Len(cache) :
          /\ cache[i].pending /\ cache[i].id \notin Ids(mg.server)
          /\ \E k \in 1..Len(mg.out) : mg.out[k] = cache[i]

\* C20: a merge of the server listing with the stored result of the previous
\* merge of that listing returns that result again, in the same order.
C20_MergeIdempotent ==
    (mg.pc = "merged" /\ Len(mg.reads) >= 2 /\ \A i \in 1..Len(mg.reads) : mg.reads[i])
    => mg.out = mg.prev

\* C20 witness: a second merge returned the first merge's result, which
\* holds a kept pending item and two items of equal created_at.
C20_Witness ==
    /\ mg.pc = "merged" /\ mg.reads = <<TRUE, TRUE>> /\ mg.out = mg.prev
    /\ \E i \in 1..Len(mg.out) : mg.out[i].pending
    /\ \E i, j \in 1..Len(mg.out) : i # j /\ mg.out[i].ts = mg.out[j].ts

\* an error a reader takes for an authentication failure: status 401, or
\* a message with the word auth in it, in either case
LowerCase(c) == IF c \in 65..90 THEN c + 32 ELSE c

IndicatesAuth(err) ==
    \/ err.status = 401
    \/ Includes([k \in 1..Len(err.message) |-> LowerCase(err.message[k])], MsgAuth)

\* C15: a retryWithBackoff call that ended with an error after failures none
\* of which was an authentication failure has called the function exactly
\* RETRY_ATTEMPTS times and throws the last error the function threw.
C15_RetryExhausts ==
    (rw.pc = "rejected" /\ \A n \in 1..Len(rw.thrown) : ~IndicatesAuth(rw.thrown[n]))
    => /\ rw.calls = RETRY_ATTEMPTS
       /\ Len(rw.thrown) = RETRY_ATTEMPTS
       /\ rw.result = rw.thrown[RETRY_ATTEMPTS]

\* C15 witness: a call gave up after RETRY_ATTEMPTS non-auth failures.
C15_Witness ==
    /\ rw.pc = "rejected" /\ rw.calls = RETRY_ATTEMPTS
    /\ \A n \in 1..Len(rw.thrown) : ~IndicatesAuth(rw.thrown[n])
    /\ rw.result.n = RETRY_ATTEMPTS

\* C16: an attempt that fails with an authentication failure (status 401 or
\* a message indicating auth) is the last attempt: the call has ended with
\* that error, and no backoff wait followed it.
C16_AuthAbortsRetry ==
    \A n \in 1..Len(rw.thrown) :
       IndicatesAuth(rw.thrown[n])
       => /\ rw.pc = "rejected" /\ n = Len(rw.thrown)
          /\ rw.result = rw.thrown[n]
          /\ Len(rw.waits) = n - 1 /\ rw.calls = n

\* C17: a retryWithBackoff call that resolved after k failures has called
\* the function k + 1 times and waited k times, the i-th wait (from 0)
\* lasting RETRY_BASE_DELAY_MS * 2^i.
C17_BackoffSchedule ==
    rw.pc = "resolved"
    => /\ rw.calls = Len(rw.thrown) + 1
       /\ rw.result = <<"value", rw.calls>>
       /\ Len(rw.waits) = Len(rw.thrown)
       /\ \A w \in 1..Len(rw.waits) : rw.waits[w] = RETRY_BASE_DELAY_MS * 2^(w - 1)

\* C17 witness: a call resolved on its last attempt after two waits.
C17_Witness ==
    /\ rw.pc = "resolved" /\ rw.calls = RETRY_ATTEMPTS
    /\ rw.waits = <<RETRY_BASE_DELAY_MS, 2 * RETRY_BASE_DELAY_MS>>

\* C12: checkRateLimit() answers true exactly when fewer than
\* RATE_LIMIT_MAX_REQUESTS incrementRateLimit() calls were made in the
\* current window, and a call made more than RATE_LIMIT_WINDOW_MS after the
\* window started begins a new window at that moment with a count of zero.
C12_RateLimiter ==
    rl.pc = "admitted"
    => /\ rl.last = (rl.records < RATE_LIMIT_MAX_REQUESTS)
       /\ rateLimitState.windowStart = rl.start
       /\ rateLimitState.requestCount = rl.records

\* C12 witness: after RATE_LIMIT_MAX_REQUESTS records the limiter refused,
\* and this is seen at the very end of the window.
C12_Witness ==
    /\ rl.pc = "admitted" /\ rl.records = RATE_LIMIT_MAX_REQUESTS /\ ~rl.last
    /\ now = rl.start + RATE_LIMIT_WINDOW_MS

\* C12 witness of the reset: a full window was left behind and the limiter
\* admits again.
C12_WitnessReset ==
    /\ rl.pc = "admitted" /\ rl.last /\ rl.records = 0
    /\ rl.start = RATE_LIMIT_WINDOW_MS + 1 /\ rateLimitState.windowStart = rl.start

\* a timer of the hash is live
LiveTimers(timers, h) == {t \in timers : t.hash = h}

\* the step is a debounce timer running its upload (device.js 287-289)
TimerRan == pc["manual"] # "up_session" /\ pc'["manual"] = "up_session" /\ call' = call

\* C18: a burst of debounced calls for one fingerprint runs the upload once,
\* one DEBOUNCE_MS after the last call of the burst: at every moment a
\* fingerprint has at most one live timer, it has one exactly while a burst
\* for it is open, that timer is due one delay after the burst's last call,
\* and a timer that runs closes the burst of its own fingerprint at that
\* moment and leaves the timers of the other fingerprints alone.
C18_DebounceCoalesces ==
    [][/\ \A h \in Hashes :
            /\ Cardinality(LiveTimers(debounceTimers', h)) <= 1
            /\ db'[h].open = (LiveTimers(debounceTimers', h) # {})
            /\ \A t \in LiveTimers(debounceTimers', h) : t.due = db'[h].last + DEBOUNCE_MS
       /\ TimerRan
          => LET h == hashContent(loc'["manual"].content) IN
             /\ db[h].open /\ ~db'[h].open
             /\ now = db[h].last + DEBOUNCE_MS
             /\ \A g \in Hashes \ {h} :
                  LiveTimers(debounceTimers', g) = LiveTimers(debounceTimers, g)]_vars

\* C18 witness: a burst (calls at 0 and in the middle of the delay) has run
\* its upload one delay after its last call, while the timer of another
\* fingerprint, set later, is still waiting.
C18_Witness ==
    /\ pc["manual"] = "up_session"
    /\ loc["manual"].ts = DEBOUNCE_MS + DEBOUNCE_MS \div 2 /\ now = loc["manual"].ts
    /\ \E g \in Hashes \ {hashContent(loc["manual"].content)} :
         db[g].open /\ db[g].last = DEBOUNCE_MS

\* the step is an uploadClipboardItem call of the UPLOAD_ITEM handler
CallMade == call = NoCall /\ call' # NoCall

\* the call and the upload it may later start have not got anywhere
NothingStarted == pc' = pc /\ loc' = loc /\ debounceTimers' = debounceTimers /\ remote' = remote

\* the limiter's window is still running and full
WindowFull ==
    /\ now - rateLimitState.windowStart <= RATE_LIMIT_WINDOW_MS
    /\ rateLimitState.requestCount >= RATE_LIMIT_MAX_REQUESTS

\* a log of the session read, the duplicate query and one or more inserts
IsInsertLog(log) ==
    /\ Len(log) >= 3 /\ log[1] = "session" /\ log[2] = "select"
    /\ \A i \in 3..Len(log) : log[i] = "insert"

\* C14: upload() makes its checks in the order empty content, recent-upload
\* guard, rate limiter, (debounce wait), session, duplicate query, insert,
\* and returns the error of the first check that fails: a call returns
\* 'Empty content' exactly for a blank text, else the guard's error exactly
\* when the guard holds the hash, else the limiter's error exactly when the
\* window is full, and in these three cases nothing is started; a call that
\* passes is scheduled or started without a session read; an upload that
\* finds no session has only read the session, one that finds a duplicate has
\* read the session and queried once, and only then comes the insert.
C14_ChecksInOrder ==
    [][/\ CallMade
          => LET c == call'.content
                 first == IF \A i \in 1..Len(c) : c[i] = BlankSpan THEN ErrEmpty
                          ELSE IF hashContent(c) \in recentlyUploaded THEN ErrLoop
                          ELSE IF WindowFull THEN ErrRate
                          ELSE NoError
             IN IF first # NoError
                THEN call'.outcome = first /\ NothingStarted
                ELSE /\ call'.outcome \in {"scheduled", "started"}
                     /\ call'.outcome = "scheduled" => pc' = pc
                     /\ call'.outcome = "started"
                        => pc'["manual"] = "up_session" /\ loc'["manual"].log = <<>>
                     /\ remote' = remote
       /\ reply' # NoReply
          => /\ reply'.error \in {ErrNoAuth, ErrDup, ErrInsert, NoError}
             /\ reply'.error = ErrNoAuth => reply'.log = <<"session">> /\ session = "none"
             /\ reply'.error = ErrDup
                => /\ reply'.log = <<"session", "select">>
                   /\ ExistingRows(hashContent(reply'.content)) # {}
             /\ reply'.error \in {ErrInsert, NoError} => IsInsertLog(reply'.log)]_vars

\* C14 witness: a call whose text is in the guard while the limiter's window
\* is full as well has been answered with the guard's error.
C14_Witness ==
    /\ call.outcome = ErrLoop
    /\ rateLimitState.requestCount >= RATE_LIMIT_MAX_REQUESTS
    /\ pc["manual"] # "up_session"

\* when this worker's uploads of the hash were confirmed
ConfirmedAt(h) == {r.ts : r \in {q \in remote : q.hash = h /\ q.dev = LocalDevice}}

\* C13: once an upload of a text has been confirmed, every further upload
\* call with the same text made less than UPLOAD_HASH_TTL after the (last)
\* confirmation is answered with the loop-prevention error and starts
\* nothing, and a call made later than that is not answered with it.
C13_GuardHoldsForTtl ==
    [][(CallMade /\ ConfirmedAt(hashContent(call'.content)) # {})
       => LET confirmed == ConfirmedAt(hashContent(call'.content))
              last == CHOOSE t \in confirmed : \A u \in confirmed : u <= t
          IN /\ now < last + UPLOAD_HASH_TTL => call'.outcome = ErrLoop /\ NothingStarted
             /\ now > last + UPLOAD_HASH_TTL => call'.outcome # ErrLoop]_vars

\* C11: within one rate-limit window (every run of the debounce
\* specification lies within the first one) the upload calls that have
\* passed the rate-limit check and reached the remote store number at most
\* RATE_LIMIT_MAX_REQUESTS.
C11_RateLimitBounds == reached <= RATE_LIMIT_MAX_REQUESTS

\* C30: within one initialization the auth listener is registered only
\* when the default configuration value exists, the session is read only
\* with the listener registered, a session refresh is issued only after a
\* session read that returned no session, and the refresh is never followed
\* by another one.
C30_InitStepOrder ==
    [][/\ initSteps'["listener"] # initSteps["listener"]
            => initPc \in {"get", "set"} /\ onboardingSet'
       /\ initSteps'["session"] # initSteps["session"]
            => authListeners' >= 1 /\ initSteps'["listener"] >= initSteps'["session"]
       /\ initPc' \in {"session", "refresh"} => authListeners' >= 1 /\ onboardingSet'
       /\ (initPc' = "refresh" /\ initPc # "refresh")
            => initPc = "session" /\ session = "none"
       /\ initPc = "refresh" /\ initPc' # "refresh" => initPc' = "idle"]_vars

\* C30 witness: the session read found no session and the one refresh is
\* under way, with the listener registered and the default in place.
C30_Witness ==
    /\ initPc = "refresh" /\ session = "none"
    /\ authListeners >= 1 /\ onboardingSet /\ initSteps["session"] >= 1

\* C22: the cached list never holds more than MAX_ITEMS items, whichever
\* of the capture handler, the pending-item fallback, the push insert
\* callback, the flush and the reconciliation fetch wrote it last.
C22_CacheCapped == Len(cache) <= MAX_ITEMS

\* C22 witness: two pending items were put in front of a list that was one
\* short of MAX_ITEMS, and the list's last item went.
C22_Witness ==
    /\ Len(cache) = MAX_ITEMS
    /\ cache[1].pending /\ cache[2].pending
    /\ \E r \in OldRows : r.id \notin Ids(cache)

\* C23: no two items of the cached list have the same id.
C23_CacheIdsUnique ==
    \A i, j \in 1..Len(cache) : cache[i].id = cache[j].id => i = j

\* C23 witness: the flush has replaced a pending item by its confirmed row
\* and the push insert callback has written another device's row, whose
\* event may have been delivered any number of times.
C23_Witness ==
    /\ pc["loginAuth"] = "done" /\ loc["loginAuth"].end = "flushed"
    /\ \E i \in 1..Len(cache) :
          /\ cache[i].dev = LocalDevice /\ ~cache[i].pending
          /\ cache[i].hash \in {a.hash : a \in accepted}
          /\ ~PendingInCache(cache[i].hash)
    /\ pc["push"] = "done" /\ loc["push"].end = "returned"
    /\ \E i \in 1..Len(cache) : cache[i].dev = OtherDevice /\ cache[i].id > 0

\* C24: the insert callback is never run for a row of this device: a row
\* is handed to it exactly when its device id is not the local one, and the
\* item a running insert callback is about to write is another device's.
C24_OwnEchoSuppressed ==
    /\ \A r \in remote : InsertDelivered(r) <=> r.dev # LocalDevice
    /\ pc["push"] \in {"push_ins_read", "push_ins_write"}
         => loc["push"].item.dev # LocalDevice

\* C24 witness: with a row of this device and a row of another device in
\* the store and the channel subscribed, the insert callback runs for the
\* other device's row.
C24_Witness ==
    /\ ChannelActive
    /\ \E r \in remote : r.dev = LocalDevice /\ r.id > 0
    /\ pc["push"] = "push_ins_write"
    /\ loc["push"].item.dev = OtherDevice

\* C21: the cached list is ordered by created_at, the newest item first.
C21_CacheSortedDesc ==
    \A i, j \in 1..Len(cache) : i < j => cache[i].ts >= cache[j].ts

\* C25: an item whose soft-delete the push delete callback has applied is
\* not in the cached list.
C25_DeletedStaysOut ==
    \A id \in loc["push"].snap : id \notin Ids(cache)

\* the capture handler's uploadClipboardItem call returns one of the errors
\* 'Empty content', 'Duplicate content (loop prevention)', 'Rate limited'
\* or 'Duplicate content' in this step
CaptureUploadRefused ==
    \/ /\ pc["capture"] \in {"cap_auth", "cap_strict", "cap_refresh"}
       /\ pc'["capture"] # pc["capture"]
       /\ session = "user"
       /\ EarlyError(loc["capture"].content) \in {ErrEmpty, ErrLoop, ErrRate}
    \/ /\ pc["capture"] = "up_select" /\ pc'["capture"] # "up_select"
       /\ ExistingRows(hashContent(loc["capture"].content)) # {}

\* C26: when the upload of a capture is refused with one of the terminal
\* errors, the capture handler returns the result and does not go on to
\* store the text as a pending item.
C26_TerminalErrorsNotStored ==
    [][CaptureUploadRefused => pc'["capture"] = "done"]_vars

\* ids of the rows of the remote store
RemoteIds == {r.id : r \in remote}

UploadPcs == {"up_session", "up_select", "up_insert", "up_backoff"}

\* positions of a handler inside processPendingUploads
FlushPcs == {"flush_auth", "flush_reread", "flush_write"} \cup UploadPcs

\* C28: a flush enters the upload of an item only from the session check
\* made for that item, and only when the check found a session; when the
\* check finds none the flush returns at once, without an upload for this
\* or a later item of its queue and with the cache and the remote store as
\* they were; the queue is only ever shortened by its first item, on the
\* way to the next session check and never by a check that found no session.
C28_FlushRechecksSession ==
    [][\A p \in FlushProcs :
         /\ (pc'[p] \in UploadPcs /\ pc[p] \notin UploadPcs)
              => /\ pc[p] = "flush_auth" /\ session = "user"
                 /\ loc'[p].content = Head(loc[p].queue).content
         /\ (pc[p] = "flush_auth" /\ pc'[p] # "flush_auth" /\ session = "none")
              => /\ pc'[p] = "done" /\ loc'[p].end = "aborted"
                 /\ cache' = cache /\ remote' = remote
         /\ (pc[p] \in FlushPcs /\ pc'[p] \in FlushPcs)
              => \/ loc'[p].queue = loc[p].queue
                 \/ /\ loc'[p].queue = Tail(loc[p].queue)
                    /\ pc'[p] = "flush_auth"
                    /\ pc[p] = "flush_auth" => session = "user"]_vars

\* C28 witness: the flush has uploaded and replaced one pending item, found
\* no session before the next one and returned; that item is still pending
\* in the cache.
C28_Witness ==
    /\ pc["loginAuth"] = "done" /\ loc["loginAuth"].end = "aborted"
    /\ session = "none"
    /\ \E i \in 1..Len(cache) :
          /\ cache[i].dev = LocalDevice /\ ~cache[i].pending
          /\ cache[i].hash \in {a.hash : a \in accepted}
          /\ ~PendingInCache(cache[i].hash)
    /\ \E i \in 1..Len(cache) : cache[i].pending

C31_SessionCheckNeverFatal ==
    [][/\ (initPc \in {"session", "refresh"} /\ initPc' # initPc)
            => /\ initFailed' = initFailed /\ initRun' = initRun
               /\ initPc' = "idle" => initPromise' = "fulfilled"
               /\ initPc' # "idle" => initPc' = "refresh" /\ initPromise' = "pending"
               /\ pc'["loginInit"] # pc["loginInit"]
                    => /\ session = "user" /\ initPromise' = "fulfilled"
                       /\ pc'["loginInit"] \in {"upsert", "done"}
               /\ session = "none" => UNCHANGED procVars
       /\ initPromise = "fulfilled" => initPromise' = "fulfilled" /\ initRun' = initRun]_vars

\* C31 witness: the session check timed out although a session was there:
\* initialization is complete, nothing failed, and neither the init path
\* nor the listener (INITIAL_SESSION is still due) has started a login.
C31_Witness ==
    /\ initPromise = "fulfilled" /\ initFailed = 0
    /\ session = "user" /\ initialSessionDue
    /\ pc["loginInit"] = "idle" /\ pc["loginAuth"] = "idle"

\* the worker from its start with its message listener: messages arrive
\* while initialization is under way, has finished or has failed
NextListen ==
    \/ Boot \/ InitGet \/ InitSet \/ InitSession \/ InitRefresh \/ InitSessionTimeout
    \/ SignIn
    \/ QueryArrive \/ QueryHandle
    \/ CaptureMessage \/ CapAuto
    \/ UploadItemDebounced \/ TimerFire \/ TickDebounce

SpecListen == Init /\ [][NextListen]_vars

\* C32: the message listener answers whatever initialization does.  A
\* CLIPBOARD_COPIED message is handled in the step it arrives in; any other
\* message that is not a PING is answered only once the initialization it
\* was handed has settled, fulfilled or failed, and once only; and a message
\* whose handler waits for a debounce timer is not left without its answer:
\* the timer goes only by running the upload the answer is made from.
C32_ListenerAnswersEveryMessage ==
    [][/\ (pc["query"] = "await_init" /\ pc'["query"] # "await_init")
            => /\ InitSettled(loc["query"].try)
               /\ pc'["query"] = "done" /\ loc'["query"].end = "answered"
       /\ (pc["query"] = "done" /\ pc'["query"] = "done")
            => loc'["query"] = loc["query"]
       /\ (handles'["message"] # handles["message"] /\ pc'["query"] = pc["query"])
            => \/ pc'["capture"] = "cap_auto"
               \/ call' # call
       /\ \A t \in debounceTimers :
              t \in debounceTimers' \/ pc'["manual"] = "up_session"]_vars

\* C33: every clipboard item that is stored, in the remote table or in the
\* local cache (pending items included), carries redacted content: redaction
\* changes nothing in it any more.
C33_StoredContentRedacted ==
    /\ \A r \in remote : r.content = redactSensitiveData(r.content)
    /\ \A i \in 1..Len(cache) : cache[i].content = redactSensitiveData(cache[i].content)

\* C34: the redactionTypes of a redactSensitiveData call lists each category
\* tag at most once, also when several spans of one category were redacted.
C34_TagsListedOnce ==
    rx.pc = "redacted"
        => \A i, j \in 1..Len(rx.types) : rx.types[i] = rx.types[j] => i = j

\* C35: redactSensitiveData is stateless: whatever calls of
\* redactSensitiveData and detectSensitiveData came before, a call returns
\* what it returns in a freshly loaded module.
C35_RedactStateless ==
    rx.pc = "redacted"
        => LET fresh == redactSensitiveDataFrom(rx.arg, FreshIndex)
           IN  rx.redacted = fresh.redacted /\ rx.types = fresh.types

\* C36: a text captured at the capture source and copied again less than
\* 500 ms after that capture gives one capture only: the second copy event
\* sends no CLIPBOARD_COPIED message.
C36_RepeatedCopySuppressed ==
    [][(/\ cs'.copies # cs.copies
        /\ \E i \in 1..Len(cs.sent) :
              /\ cs.sent[i].content = cs'.event.content
              /\ cs'.event.at - cs.sent[i].at < COPY_DEBOUNCE_MS)
           => cs'.sent = cs.sent]_vars

\* a text was captured, and copied again 250 ms later with capture enabled:
\* one message has been sent
C36_Witness ==
    /\ cs.copies = 2 /\ Len(cs.sent) = 1 /\ cs.captureEnabled
    /\ cs.event.content = cs.sent[1].content
    /\ cs.event.at = cs.sent[1].at + COPY_DEBOUNCE_MS \div 2

\* C37: no cache update is lost when cache-modifying operations overlap:
\* the cache a push insert, a successful capture or a flushed upload leaves
\* is its change made to the cache as it is when it writes, so that what
\* another operation wrote since this one read is still there.
C37_NoLostCacheUpdate ==
    [][/\ (pc["push"] = "push_ins_write" /\ pc'["push"] = "done")
            => cache' = Prepend(loc["push"].item, cache)
       /\ (pc["capture"] = "cap_write" /\ pc'["capture"] = "done")
            => cache' = Prepend(loc["capture"].item, cache)
       /\ \A p \in FlushProcs :
              (pc[p] = "flush_write" /\ pc'[p] # "flush_write")
                  => cache' = ReplacePending(cache, Head(loc[p].queue).id, loc[p].item)]_vars

\* callers of uploadClipboardItem
Uploaders == FlushProcs \cup {"capture", "manual"}

NotCached(id) == \A i \in 1..Len(cache) : cache[i].id # id

\* C40: push events are applied idempotently.  An insert event delivered
\* again right after it was applied (its item is the newest entry of the
\* cache the callback has read, and nothing was written since) leaves the
\* cache as it is, with one entry for the id; a soft-delete event delivered
\* again after it was applied leaves the cache as it is, without the id.
C40_PushEventsIdempotent ==
    [][/\ (/\ pc["push"] = "push_ins_write" /\ pc'["push"] = "done"
           /\ loc["push"].cached = cache
           /\ cache # <<>> /\ Head(cache) = loc["push"].item)
            => /\ cache' = cache
               /\ Cardinality({i \in 1..Len(cache') : cache'[i].id = loc["push"].item.id}) = 1
       /\ (/\ pc["push"] = "push_del_write" /\ pc'["push"] = "done"
           /\ loc["push"].cached = cache
           /\ loc["push"].item.id \in loc["push"].snap /\ NotCached(loc["push"].item.id))
            => cache' = cache /\ NotCached(loc["push"].item.id)]_vars

\* an insert event is delivered a second time: its callback has read the
\* cache the first delivery wrote, two entries long, and is about to write
C40_Witness ==
    /\ pc["push"] = "push_ins_write"
    /\ loc["push"].cached = cache
    /\ Len(cache) = 2 /\ Head(cache) = loc["push"].item

\* C38: every uploadClipboardItem call with skipDebounce = false resolves
\* with a result.  The call's promise is resolved only by the callback of
\* the timer the call has set (device.js 287-291), so the claim needs every
\* debounce timer that leaves debounceTimers to leave it by running: a timer
\* replaced by a later call of the same fingerprint, or cleared by the
\* logout cleanup, leaves its call pending for ever.
C38_DebouncedCallResolves ==
    [][\A t \in debounceTimers :
           t \notin debounceTimers'
               => /\ pc["manual"] # "up_session" /\ pc'["manual"] = "up_session"
                  /\ loc'["manual"].content = t.content]_vars

====
